---- MODULE Spec2Model ----
(***************************************************************************)
(* A model of the memories photo-album service: the SQLite-backed album    *)
(* and photo repositories (internal/storage/sqlite), the album creation    *)
(* handler with its slug derivation (internal/http/handlers) and the photo *)
(* ingestion pipeline.                                                     *)
(*                                                                         *)
(* Text is a sequence of one-character strings, a timestamp is a natural   *)
(* number of clock ticks (all timestamps are UTC), an error is the chain   *)
(* of errors that errors.Is walks (<< >> is nil).                          *)
(***************************************************************************)
EXTENDS Integers, Sequences, FiniteSets, TLC

VARIABLES
    albums,     \* rows of table albums
    photos,     \* rows of table photos
    albumSeq,   \* sqlite_sequence entry of albums (AUTOINCREMENT)
    photoSeq,   \* sqlite_sequence entry of photos (AUTOINCREMENT)
    clock,      \* what time.Now().UTC() returns
    last,       \* the most recent repository call and what it returned
    req,        \* the request in flight: the HTTP request being handled, or
                \* the repository call a caller is in, with its position
    resp,       \* the response written by the handler
    disk,       \* the filesystem: the album directories and files under the
                \* uploads directory, and whether the database file exists
    up          \* the upload attempt in flight: its step and what it holds

vars == <<albums, photos, albumSeq, photoSeq, clock, last, req, resp, disk, up>>

httpVars == <<req, resp, disk, up>>

----------------------------------------------------------------------------
(* Bounds of the model.                                                    *)

MaxAlbumID == 2

MaxPhotoID == 2

MaxClock == 1

MaxListPhotos == 3

MaxLen == 4

MaxListAlbums == 3

MaxUploads == 2

----------------------------------------------------------------------------
(* Values.                                                                 *)

\* sql.NullInt64 / sql.NullTime
Null == [Valid |-> FALSE, V |-> 0]

NotNull(v) == [Valid |-> TRUE, V |-> v]

\* time.Time: an instant (unix) read in a location (zone); the local zone
\* of the process is LocalOffset ahead of UTC
LocalOffset == 1

Time(unix, zone) == [unix |-> unix, zone |-> zone]

\* the wall-clock reading of a time in its own location
Wall(t) == t.unix + (IF t.zone = "Local" THEN LocalOffset ELSE 0)

\* relabelling the wall-clock reading as UTC
UTCWall(t) == Time(Wall(t), "UTC")

\* Time.UTC(): the same instant, read in UTC
UTC(t) == Time(t.unix, "UTC")

\* the zero sql.NullTime, and a nil *time.Time
NoTime == [Valid |-> FALSE, V |-> Time(0, "UTC")]

\* photoRepository.Create: a TakenAt that is given is stored in UTC
StoredTime(takenAt) ==
    IF takenAt.Valid THEN NotNull(UTC(takenAt.V)) ELSE NoTime

\* scanPhoto: a taken_at that is not NULL is returned in UTC
ScannedTime(takenAtRaw) ==
    IF takenAtRaw.Valid THEN NotNull(UTC(takenAtRaw.V)) ELSE NoTime

Nullable(S) == {Null} \cup {NotNull(v) : v \in S}

\* error chains
NoError == << >>

ErrNotFound == <<"storage: not found">>

ErrConflict == <<"storage: conflict">>

ErrUniqueConstraint == <<"constraint failed: UNIQUE constraint failed">>

ErrForeignKey == <<"constraint failed: FOREIGN KEY constraint failed">>

\* fmt.Errorf("<prefix>: %w", err)
Wrap(prefix, err) == <<prefix>> \o err

\* errors.Is(err, target) for a sentinel target
ErrorsIs(err, target) == \E i \in 1..Len(err) : err[i] = target[1]

NoAlbum == [ID |-> 0, Slug |-> << >>, Title |-> << >>, Description |-> << >>,
            CoverPhotoID |-> Null, CreatedAt |-> 0, UpdatedAt |-> 0]

NoPhoto == [ID |-> 0, AlbumID |-> 0, Filename |-> << >>, Caption |-> << >>,
            TakenAt |-> NoTime, CreatedAt |-> 0, UpdatedAt |-> 0]

----------------------------------------------------------------------------
(* Input sets of the repository specification.                             *)

Slugs == {<<"a">>, <<"b">>}

Titles == {<<"T">>}

Descriptions == {<< >>}

Filenames == {<<"f">>, <<"g">>}

Captions == {<< >>}

TakenAts == {NoTime}

AlbumIDs == 1..MaxAlbumID

PhotoIDs == 1..MaxPhotoID

----------------------------------------------------------------------------
(* The album repository.                                                   *)

\* a scan that returns the zero album, and no error, when no row matches
AlbumsGetByIDZero(rows, id) ==
    IF \E r \in rows : r.ID = id
    THEN [album |-> CHOOSE r \in rows : r.ID = id, err |-> NoError]
    ELSE [album |-> NoAlbum, err |-> NoError]

\* scanAlbum over SELECT ... FROM albums WHERE id = ?
AlbumsGetByID(rows, id) ==
    IF \E r \in rows : r.ID = id
    THEN [album |-> CHOOSE r \in rows : r.ID = id, err |-> NoError]
    ELSE [album |-> NoAlbum, err |-> ErrNotFound]

\* scanAlbum over SELECT ... FROM albums WHERE slug = ?
AlbumsGetBySlug(rows, slug) ==
    IF \E r \in rows : r.Slug = slug
    THEN [album |-> CHOOSE r \in rows : r.Slug = slug, err |-> NoError]
    ELSE [album |-> NoAlbum, err |-> ErrNotFound]

\* slug TEXT NOT NULL UNIQUE
SlugUnique(rows, slug) == ~ \E r \in rows : r.Slug = slug

\* what Create returns when the INSERT fails on the unique index
CreateAlbumError(err) == Wrap("sqlite: create album", err)

\* one repository call: its name, its arguments, and what it returned
Call(op, a, p, slug, err, album, photo, list) ==
    [op |-> op, a |-> a, p |-> p, slug |-> slug, err |-> err,
     album |-> album, photo |-> photo, list |-> list]

\* the largest ID among the rows, 0 for an empty table
MaxRowID(rows) ==
    IF rows = {} THEN 0
    ELSE CHOOSE n \in {r.ID : r \in rows} : \A r \in rows : r.ID <= n

\* INTEGER PRIMARY KEY without AUTOINCREMENT: one more than the largest
\* rowid in the table
NextRowID(rows, seq) == MaxRowID(rows) + 1

\* INTEGER PRIMARY KEY AUTOINCREMENT: one more than the largest rowid the
\* table has ever held, which sqlite_sequence records
NextID(rows, seq) == seq + 1

AlbumsCreate(slug, title, description) ==
    LET now == clock
        id  == NextID(albums, albumSeq)
        row == [ID |-> id, Slug |-> slug, Title |-> title,
                Description |-> description, CoverPhotoID |-> Null,
                CreatedAt |-> now, UpdatedAt |-> now]
    IN  IF SlugUnique(albums, slug)
        THEN /\ albums' = albums \cup {row}
             /\ albumSeq' = id
             /\ last' = Call("Albums.Create", 0, 0, slug, NoError,
                             AlbumsGetByID(albums', id).album, NoPhoto, << >>)
             /\ UNCHANGED <<photos, photoSeq, clock>>
        ELSE /\ last' = Call("Albums.Create", 0, 0, slug,
                             CreateAlbumError(ErrUniqueConstraint),
                             NoAlbum, NoPhoto, << >>)
             /\ UNCHANGED <<albums, photos, albumSeq, photoSeq, clock>>

GetByID(id) ==
    /\ last' = Call("Albums.GetByID", id, 0, << >>, AlbumsGetByID(albums, id).err,
                    AlbumsGetByID(albums, id).album, NoPhoto, << >>)
    /\ UNCHANGED <<albums, photos, albumSeq, photoSeq, clock>>

GetBySlug(slug) ==
    /\ last' = Call("Albums.GetBySlug", 0, 0, slug, AlbumsGetBySlug(albums, slug).err,
                    AlbumsGetBySlug(albums, slug).album, NoPhoto, << >>)
    /\ UNCHANGED <<albums, photos, albumSeq, photoSeq, clock>>

\* ORDER BY id DESC
AlbumBeforeByID(r, s) == r.ID > s.ID

\* ORDER BY created_at DESC, id DESC
AlbumBefore(r, s) ==
    \/ r.CreatedAt > s.CreatedAt
    \/ r.CreatedAt = s.CreatedAt /\ r.ID > s.ID

RECURSIVE AlbumsList(_)
AlbumsList(rows) ==
    IF rows = {} THEN << >>
    ELSE LET first == CHOOSE r \in rows : \A s \in rows \ {r} : AlbumBefore(r, s)
         IN  <<first>> \o AlbumsList(rows \ {first})

List ==
    /\ last' = Call("Albums.List", 0, 0, << >>, NoError, NoAlbum, NoPhoto,
                    AlbumsList(albums))
    /\ UNCHANGED <<albums, photos, albumSeq, photoSeq, clock>>

\* UPDATE albums SET title = ?, description = ?, updated_at = ? WHERE id = ?
\* with only the clauses whose input field is not nil
\* an UPDATE that assigns every column, an unset field as the empty text
UpdatedRowOverwrite(r, title, description, now) ==
    [r EXCEPT !.Title = IF title.Valid THEN title.V ELSE << >>,
              !.Description = IF description.Valid THEN description.V ELSE << >>,
              !.UpdatedAt = now]

\* an UPDATE that also rewrites the slug, from the new title
UpdatedRowReslug(r, title, description, now) ==
    [r EXCEPT !.Title = IF title.Valid THEN title.V ELSE @,
              !.Description = IF description.Valid THEN description.V ELSE @,
              !.Slug = IF title.Valid THEN title.V ELSE @,
              !.UpdatedAt = now]

UpdatedRow(r, title, description, now) ==
    [r EXCEPT !.Title = IF title.Valid THEN title.V ELSE @,
              !.Description = IF description.Valid THEN description.V ELSE @,
              !.UpdatedAt = now]

\* the input of an Update call, kept with the call
UpdateCall(id, title, description, err, album) ==
    Call("Albums.Update", id, 0, << >>, err, album, NoPhoto, << >>)
        @@ [input |-> [Title |-> title, Description |-> description]]

\* Update running its UPDATE statement even when no field is set
UpdateTouching(id, title, description) ==
    /\ albums' = {IF r.ID = id
                  THEN UpdatedRow(r, title, description, clock)
                  ELSE r : r \in albums}
    /\ last' = IF \E r \in albums : r.ID = id
               THEN UpdateCall(id, title, description, NoError,
                               AlbumsGetByID(albums', id).album)
               ELSE UpdateCall(id, title, description, ErrNotFound, NoAlbum)
    /\ UNCHANGED <<photos, albumSeq, photoSeq, clock>>

Update(id, title, description) ==
    LET now == clock
    IN  IF ~ title.Valid /\ ~ description.Valid
        THEN /\ last' = UpdateCall(id, title, description,
                                   AlbumsGetByID(albums, id).err,
                                   AlbumsGetByID(albums, id).album)
             /\ UNCHANGED <<albums, photos, albumSeq, photoSeq, clock>>
        ELSE /\ albums' = {IF r.ID = id
                           THEN UpdatedRow(r, title, description, now)
                           ELSE r : r \in albums}
             /\ last' = IF \E r \in albums : r.ID = id
                        THEN UpdateCall(id, title, description, NoError,
                                        AlbumsGetByID(albums', id).album)
                        ELSE UpdateCall(id, title, description, ErrNotFound,
                                        NoAlbum)
             /\ UNCHANGED <<photos, albumSeq, photoSeq, clock>>

\* the foreign key without its ON DELETE CASCADE action
NoCascadeDelete(photoRows, albumID) == photoRows

\* FOREIGN KEY(album_id) REFERENCES albums(id) ON DELETE CASCADE
CascadeDelete(photoRows, albumID) == {p \in photoRows : p.AlbumID # albumID}

Delete(id) ==
    /\ albums' = {r \in albums : r.ID # id}
    /\ photos' = IF \E r \in albums : r.ID = id
                 THEN CascadeDelete(photos, id)
                 ELSE photos
    /\ last' = Call("Albums.Delete", id, 0, << >>,
                    IF \E r \in albums : r.ID = id THEN NoError ELSE ErrNotFound,
                    NoAlbum, NoPhoto, << >>)
    /\ UNCHANGED <<albumSeq, photoSeq, clock>>

\* the ownership query without its album_id condition
PhotoExists(photoRows, photoID, albumID) ==
    \E p \in photoRows : p.ID = photoID

\* SELECT 1 FROM photos WHERE id = ? AND album_id = ?
PhotoOwned(photoRows, photoID, albumID) ==
    \E p \in photoRows : p.ID = photoID /\ p.AlbumID = albumID

\* UPDATE albums SET cover_photo_id = ?, updated_at = ? WHERE id = ?
SetCover(rows, albumID, cover, now) ==
    {IF r.ID = albumID
     THEN [r EXCEPT !.CoverPhotoID = cover, !.UpdatedAt = now]
     ELSE r : r \in rows}

SetCoverPhoto(albumID, photoID) ==
    LET now == clock
    IN  IF ~ PhotoOwned(photos, photoID, albumID)
        THEN /\ last' = Call("Albums.SetCoverPhoto", albumID, photoID, << >>,
                             ErrNotFound, NoAlbum, NoPhoto, << >>)
             /\ UNCHANGED <<albums, photos, albumSeq, photoSeq, clock>>
        ELSE /\ albums' = SetCover(albums, albumID, NotNull(photoID), now)
             /\ last' = Call("Albums.SetCoverPhoto", albumID, photoID, << >>,
                             IF \E r \in albums : r.ID = albumID
                             THEN NoError ELSE ErrNotFound,
                             NoAlbum, NoPhoto, << >>)
             /\ UNCHANGED <<photos, albumSeq, photoSeq, clock>>

\* the UPDATE refreshing updated_at without assigning cover_photo_id
ClearCoverPhotoTouch(albumID) ==
    /\ albums' = {IF r.ID = albumID THEN [r EXCEPT !.UpdatedAt = clock] ELSE r :
                     r \in albums}
    /\ last' = Call("Albums.ClearCoverPhoto", albumID, 0, << >>,
                    IF \E r \in albums : r.ID = albumID
                    THEN NoError ELSE ErrNotFound,
                    NoAlbum, NoPhoto, << >>)
    /\ UNCHANGED <<photos, albumSeq, photoSeq, clock>>

ClearCoverPhoto(albumID) ==
    LET now == clock
    IN  /\ albums' = SetCover(albums, albumID, Null, now)
        /\ last' = Call("Albums.ClearCoverPhoto", albumID, 0, << >>,
                        IF \E r \in albums : r.ID = albumID
                        THEN NoError ELSE ErrNotFound,
                        NoAlbum, NoPhoto, << >>)
        /\ UNCHANGED <<photos, albumSeq, photoSeq, clock>>

----------------------------------------------------------------------------
(* The photo repository.                                                   *)

\* scanPhoto over SELECT ... FROM photos WHERE id = ?
PhotosGetByID(rows, id) ==
    IF \E r \in rows : r.ID = id
    THEN [photo |-> [(CHOOSE r \in rows : r.ID = id)
                        EXCEPT !.TakenAt = ScannedTime(@)],
          err |-> NoError]
    ELSE [photo |-> NoPhoto, err |-> ErrNotFound]

\* the reference left unenforced, as with PRAGMA foreign_keys = OFF
ForeignKeysOff(albumRows, albumID) == TRUE

\* album_id INTEGER NOT NULL ... REFERENCES albums(id), PRAGMA foreign_keys = ON
AlbumExists(albumRows, albumID) == \E r \in albumRows : r.ID = albumID

\* CREATE UNIQUE INDEX idx_photos_album_filename ON photos(album_id, filename)
FilenameUnique(photoRows, albumID, filename) ==
    ~ \E p \in photoRows : p.AlbumID = albumID /\ p.Filename = filename

\* the error of the INSERT INTO photos statement, NoError when it succeeds
InsertPhotoError(albumRows, photoRows, albumID, filename) ==
    IF ~ FilenameUnique(photoRows, albumID, filename) THEN ErrUniqueConstraint
    ELSE IF ~ AlbumExists(albumRows, albumID) THEN ErrForeignKey
    ELSE NoError

PhotosCreate(albumID, filename, caption, takenAt) ==
    LET now == clock
        id  == NextID(photos, photoSeq)
        err == InsertPhotoError(albums, photos, albumID, filename)
        row == [ID |-> id, AlbumID |-> albumID, Filename |-> filename,
                Caption |-> caption, TakenAt |-> StoredTime(takenAt),
                CreatedAt |-> now, UpdatedAt |-> now]
    IN  IF err = NoError
        THEN /\ photos' = photos \cup {row}
             /\ photoSeq' = id
             /\ last' = Call("Photos.Create", albumID, 0, filename, NoError,
                             NoAlbum, PhotosGetByID(photos', id).photo, << >>)
                           @@ [input |-> [TakenAt |-> takenAt]]
             /\ UNCHANGED <<albums, albumSeq, clock>>
        ELSE /\ last' = Call("Photos.Create", albumID, 0, filename,
                             Wrap("sqlite: create photo", err),
                             NoAlbum, NoPhoto, << >>)
                           @@ [input |-> [TakenAt |-> takenAt]]
             /\ UNCHANGED <<albums, photos, albumSeq, photoSeq, clock>>

PhotoGetByID(id) ==
    /\ last' = Call("Photos.GetByID", 0, id, << >>, PhotosGetByID(photos, id).err,
                    NoAlbum, PhotosGetByID(photos, id).photo, << >>)
    /\ UNCHANGED <<albums, photos, albumSeq, photoSeq, clock>>

\* the ORDER BY clause without its leading "taken_at IS NULL" term: SQLite
\* sorts NULL before every value
PhotoOrderKeyNullsFirst(p) ==
    <<0, IF p.TakenAt.Valid THEN p.TakenAt.V.unix ELSE -1, p.CreatedAt, p.ID>>

\* ORDER BY taken_at IS NULL, taken_at, created_at, id
PhotoOrderKey(p) ==
    <<IF p.TakenAt.Valid THEN 0 ELSE 1, p.TakenAt.V.unix, p.CreatedAt, p.ID>>

\* lexicographic comparison of two ORDER BY keys of the same length
KeyLess(k1, k2) ==
    \E i \in 1..Len(k1) :
        /\ k1[i] < k2[i]
        /\ \A j \in 1..(i - 1) : k1[j] = k2[j]

RECURSIVE SortPhotos(_)
SortPhotos(rows) ==
    IF rows = {} THEN << >>
    ELSE LET first == CHOOSE r \in rows :
                         \A s \in rows \ {r} :
                            KeyLess(PhotoOrderKey(r), PhotoOrderKey(s))
         IN  <<first>> \o SortPhotos(rows \ {first})

\* SELECT ... FROM photos WHERE album_id = ? ORDER BY ...
PhotosListByAlbum(photoRows, albumID) ==
    LET rows == SortPhotos({p \in photoRows : p.AlbumID = albumID})
    IN  [i \in 1..Len(rows) |-> [rows[i] EXCEPT !.TakenAt = ScannedTime(@)]]

ListByAlbum(albumID) ==
    /\ last' = Call("Photos.ListByAlbum", albumID, 0, << >>, NoError,
                    NoAlbum, NoPhoto, PhotosListByAlbum(photos, albumID))
    /\ UNCHANGED <<albums, photos, albumSeq, photoSeq, clock>>

PhotoDelete(id) ==
    /\ photos' = {p \in photos : p.ID # id}
    /\ last' = Call("Photos.Delete", 0, id, << >>,
                    IF \E p \in photos : p.ID = id THEN NoError ELSE ErrNotFound,
                    NoAlbum, NoPhoto, << >>)
    /\ UNCHANGED <<albums, albumSeq, photoSeq, clock>>

----------------------------------------------------------------------------
(* The repository specification: every repository operation, in any order. *)

Tick ==
    /\ clock < MaxClock
    /\ clock' = clock + 1
    /\ UNCHANGED <<albums, photos, albumSeq, photoSeq, last, httpVars>>

NoRequest == [handler |-> "none"]

NoResponse == [status |-> 0]

\* the database file exists, the uploads directory is empty
NoFiles == [dirs |-> {}, files |-> {}, db |-> TRUE]

\* the path of the database file
DBPath == <<"d", "b">>

NoUpload == [state |-> "idle", n |-> 0, album |-> NoAlbum, filename |-> << >>,
             takenAt |-> NoTime, creates |-> 0, status |-> 0]

Init ==
    /\ albums = {}
    /\ photos = {}
    /\ albumSeq = 0
    /\ photoSeq = 0
    /\ clock = 0
    /\ last = Call("Open", 0, 0, DBPath, NoError, NoAlbum, NoPhoto, << >>)
    /\ req = NoRequest
    /\ resp = NoResponse
    /\ disk = NoFiles
    /\ up = NoUpload

\* a repository call made directly, outside any HTTP handler
Repo(call) == call /\ UNCHANGED httpVars

\* a repository call made by another request while a handler is in flight
Other(call) == call /\ UNCHANGED <<req, resp, disk, up>>

\* the model stops issuing IDs at the bounds; a failing INSERT issues none
AlbumCap(slug) == SlugUnique(albums, slug) => albumSeq < MaxAlbumID

PhotoCap(a, f, max) ==
    InsertPhotoError(albums, photos, a, f) = NoError => photoSeq < max

Next ==
    \/ \E slug \in Slugs, title \in Titles, description \in Descriptions :
          AlbumCap(slug) /\ Repo(AlbumsCreate(slug, title, description))
    \/ \E id \in AlbumIDs : Repo(GetByID(id))
    \/ \E slug \in Slugs : Repo(GetBySlug(slug))
    \/ Repo(List)
    \/ \E id \in AlbumIDs, title \in Nullable(Titles),
          description \in Nullable(Descriptions) :
          Repo(Update(id, title, description))
    \/ \E id \in AlbumIDs : Repo(Delete(id))
    \/ \E a \in AlbumIDs, p \in PhotoIDs : Repo(SetCoverPhoto(a, p))
    \/ \E a \in AlbumIDs : Repo(ClearCoverPhoto(a))
    \/ \E a \in AlbumIDs, f \in Filenames, c \in Captions, t \in TakenAts :
          PhotoCap(a, f, MaxPhotoID) /\ Repo(PhotosCreate(a, f, c, t))
    \/ \E p \in PhotoIDs : Repo(PhotoGetByID(p))
    \/ \E a \in AlbumIDs : Repo(ListByAlbum(a))
    \/ \E p \in PhotoIDs : Repo(PhotoDelete(p))

Spec == Init /\ [][Next]_vars

----------------------------------------------------------------------------
(* The timed specification: the operations that stamp updated_at, with the *)
(* clock advancing between calls.                                          *)

TimedFilenames == {<<"f">>}

NextTimed ==
    \/ Tick
    \/ \E slug \in Slugs, title \in Titles, description \in Descriptions :
          AlbumCap(slug) /\ Repo(AlbumsCreate(slug, title, description))
    \/ \E id \in AlbumIDs, title \in Nullable(Titles),
          description \in Nullable(Descriptions) :
          Repo(Update(id, title, description))
    \/ \E a \in AlbumIDs, p \in PhotoIDs : Repo(SetCoverPhoto(a, p))
    \/ \E a \in AlbumIDs : Repo(ClearCoverPhoto(a))
    \/ \E a \in AlbumIDs, f \in TimedFilenames, c \in Captions, t \in TakenAts :
          PhotoCap(a, f, MaxPhotoID) /\ Repo(PhotosCreate(a, f, c, t))
    \/ \E p \in PhotoIDs : Repo(PhotoDelete(p))

SpecTimed == Init /\ [][NextTimed]_vars

----------------------------------------------------------------------------
(* The specification of Albums.Update: titles and descriptions that        *)
(* differ from the ones an album was created with.                         *)

UpdateTitles == {<<"T">>, <<"U">>}

UpdateDescriptions == {<< >>, <<"d">>}

NextUpdate ==
    \/ Tick
    \/ \E slug \in Slugs, title \in Titles, description \in Descriptions :
          AlbumCap(slug) /\ Repo(AlbumsCreate(slug, title, description))
    \/ \E id \in AlbumIDs, title \in Nullable(UpdateTitles),
          description \in Nullable(UpdateDescriptions) :
          Repo(Update(id, title, description))
    \/ \E a \in AlbumIDs, f \in TimedFilenames, c \in Captions, t \in TakenAts :
          PhotoCap(a, f, 1) /\ Repo(PhotosCreate(a, f, c, t))
    \/ \E a \in AlbumIDs, p \in PhotoIDs : Repo(SetCoverPhoto(a, p))

SpecUpdate == Init /\ [][NextUpdate]_vars

----------------------------------------------------------------------------
(* The listing specification: photos with and without capture times are    *)
(* created in two albums at equal and at different clock readings, and     *)
(* listed.                                                                 *)

ListTakenAts == {NoTime, NotNull(Time(1, "UTC")), NotNull(Time(2, "UTC"))}

\* the caller names every file differently: "x", "xx", "xxx", ...
ListFilename(n) == [i \in 1..n |-> "x"]

NextList ==
    \/ Tick
    \/ \E slug \in Slugs, title \in Titles, description \in Descriptions :
          AlbumCap(slug) /\ Repo(AlbumsCreate(slug, title, description))
    \/ \E a \in AlbumIDs, c \in Captions, t \in ListTakenAts :
          /\ PhotoCap(a, ListFilename(photoSeq + 1), MaxListPhotos)
          /\ Repo(PhotosCreate(a, ListFilename(photoSeq + 1), c, t))
    \/ \E a \in AlbumIDs : Repo(ListByAlbum(a))

SpecList == Init /\ [][NextList]_vars

----------------------------------------------------------------------------
(* The specification of Open: the database file does not exist at first.   *)

Paths == {<< >>, DBPath}

ErrEmptyPath == <<"sqlite: path must not be empty">>

\* CREATE TABLE after DROP TABLE: the table is always empty afterwards
BootstrapRecreate(exists, rows) == {}

\* CREATE TABLE IF NOT EXISTS: an existing table keeps its rows
Bootstrap(exists, rows) == IF exists THEN rows ELSE {}

Open(path) ==
    IF path = << >>
    THEN /\ last' = Call("Open", 0, 0, path, ErrEmptyPath, NoAlbum, NoPhoto, << >>)
         /\ UNCHANGED <<albums, photos, albumSeq, photoSeq, clock, req, resp,
                        disk, up>>
    ELSE /\ disk' = [disk EXCEPT !.db = TRUE]
         /\ albums' = Bootstrap(disk.db, albums)
         /\ photos' = Bootstrap(disk.db, photos)
         /\ albumSeq' = IF disk.db THEN albumSeq ELSE 0
         /\ photoSeq' = IF disk.db THEN photoSeq ELSE 0
         /\ last' = Call("Open", 0, 0, path, NoError, NoAlbum, NoPhoto, << >>)
         /\ UNCHANGED <<clock, req, resp, up>>

\* nothing has been opened yet and no database file exists
InitOpen ==
    /\ albums = {}
    /\ photos = {}
    /\ albumSeq = 0
    /\ photoSeq = 0
    /\ clock = 0
    /\ last = Call("none", 0, 0, << >>, NoError, NoAlbum, NoPhoto, << >>)
    /\ req = NoRequest
    /\ resp = NoResponse
    /\ disk = [NoFiles EXCEPT !.db = FALSE]
    /\ up = NoUpload

\* the repositories are those of a store that Open has returned
NextOpen ==
    \/ \E path \in Paths : Open(path)
    \/ \E slug \in Slugs, title \in Titles, description \in Descriptions :
          disk.db /\ AlbumCap(slug) /\ Repo(AlbumsCreate(slug, title, description))
    \/ \E a \in AlbumIDs, f \in Filenames, c \in Captions, t \in TakenAts :
          disk.db /\ PhotoCap(a, f, MaxPhotoID) /\ Repo(PhotosCreate(a, f, c, t))
    \/ \E id \in AlbumIDs : disk.db /\ Repo(Delete(id))
    \/ disk.db /\ Repo(List)
    \/ \E a \in AlbumIDs : disk.db /\ Repo(ListByAlbum(a))

SpecOpen == InitOpen /\ [][NextOpen]_vars

----------------------------------------------------------------------------
(* The specification of Albums.List.  time.Now() reads the wall clock,     *)
(* which an adjustment of the system time may set back.                    *)

ClockSetBack ==
    /\ clock > 0
    /\ clock' = clock - 1
    /\ UNCHANGED <<albums, photos, albumSeq, photoSeq, last, httpVars>>

\* the caller names every album differently: "x", "xx", "xxx", ...
ListSlug(n) == [i \in 1..n |-> "x"]

NextAlbumList ==
    \/ Tick
    \/ ClockSetBack
    \/ \E title \in Titles, description \in Descriptions :
          /\ albumSeq < MaxListAlbums
          /\ Repo(AlbumsCreate(ListSlug(albumSeq + 1), title, description))
    \/ \E id \in 1..MaxListAlbums : Repo(Delete(id))
    \/ Repo(List)

SpecAlbumList == Init /\ [][NextAlbumList]_vars

----------------------------------------------------------------------------
(* Text handling of the album handlers.                                    *)

\* the characters of the model: a lowercase letter, an uppercase letter, a
\* digit, the hyphen, white space, punctuation, and "K" for the Kelvin sign
\* U+212A, a letter outside A-Z whose lowercase is the ASCII letter k
Chars == {"a", "B", "1", "-", " ", "!", "K"}

\* every text of at most MaxLen characters
Strings == UNION {[1..n -> Chars] : n \in 0..MaxLen}

IsLower(r) == r \in {"a", "b", "k"}

IsUpper(r) == r \in {"B"}

IsDigit(r) == r \in {"1"}

\* unicode.ToLower
ToLowerRune(r) == IF r = "B" THEN "b" ELSE IF r = "K" THEN "k" ELSE r

\* strings.ToLower
ToLower(value) == [i \in 1..Len(value) |-> ToLowerRune(value[i])]

\* strings.Trim(value, cutset) for a one-character cutset
RECURSIVE Trim(_, _)
Trim(value, c) ==
    IF value = << >> THEN << >>
    ELSE IF Head(value) = c THEN Trim(Tail(value), c)
    ELSE IF value[Len(value)] = c THEN Trim(SubSeq(value, 1, Len(value) - 1), c)
    ELSE value

\* strings.TrimSpace
TrimSpace(value) == Trim(value, " ")

\* regexp ^[a-z0-9]+(?:-[a-z0-9]+)*$ read as an automaton: state 0 expects
\* the first character of a word, state 1 is inside a word (accepting)
RECURSIVE SlugPatternRun(_, _, _)
SlugPatternRun(value, i, state) ==
    IF i > Len(value) THEN state = 1
    ELSE IF IsLower(value[i]) \/ IsDigit(value[i])
         THEN SlugPatternRun(value, i + 1, 1)
    ELSE IF value[i] = "-" /\ state = 1
         THEN SlugPatternRun(value, i + 1, 0)
    ELSE FALSE

\* slugPattern.MatchString
slugPattern(value) == SlugPatternRun(value, 1, 0)

\* the loop of slugify: b is the builder, prevHyphen its flag
RECURSIVE SlugifyLoop(_, _, _, _)
SlugifyLoop(value, i, b, prevHyphen) ==
    IF i > Len(value) THEN b
    ELSE LET r == value[i]
         IN  IF IsLower(r) THEN SlugifyLoop(value, i + 1, Append(b, r), FALSE)
             ELSE IF IsUpper(r)
                  THEN SlugifyLoop(value, i + 1, Append(b, ToLowerRune(r)), FALSE)
             ELSE IF IsDigit(r)
                  THEN SlugifyLoop(value, i + 1, Append(b, r), FALSE)
             ELSE IF r = "-" /\ ~ prevHyphen /\ Len(b) > 0
                  THEN SlugifyLoop(value, i + 1, Append(b, "-"), TRUE)
             ELSE IF ~ prevHyphen /\ Len(b) > 0
                  THEN SlugifyLoop(value, i + 1, Append(b, "-"), TRUE)
             ELSE SlugifyLoop(value, i + 1, b, prevHyphen)

\* slugify returning the builder as it is, without trimming hyphens
slugifyUntrimmed(value) ==
    IF TrimSpace(value) = << >> THEN << >>
    ELSE SlugifyLoop(TrimSpace(value), 1, << >>, FALSE)

slugify(value) ==
    IF TrimSpace(value) = << >> THEN << >>
    ELSE Trim(SlugifyLoop(TrimSpace(value), 1, << >>, FALSE), "-")

----------------------------------------------------------------------------
(* The album creation handler.                                             *)

StatusSeeOther == 303

StatusBadRequest == 400

StatusNotFound == 404

StatusUnprocessableEntity == 422

StatusInternalServerError == 500

TitleRequired == "Title is required."

SlugInvalid == "Slug may only contain letters, numbers, and hyphens."

SlugExists == "An album with that slug already exists."

\* validation of the form: the slug to create and form.Errors ("" is no entry)
CreateForm(title, slugField, description) ==
    LET formTitle == TrimSpace(title)
        formSlug  == TrimSpace(slugField)
        manualBad == formSlug # << >> /\ ~ slugPattern(ToLower(formSlug))
        slug      == IF formSlug # << >>
                     THEN IF manualBad THEN << >> ELSE slugify(formSlug)
                     ELSE slugify(formTitle)
    IN  [Title |-> formTitle,
         Slug |-> IF manualBad THEN formSlug ELSE slug,
         Description |-> TrimSpace(description),
         slug |-> slug,
         Errors |-> [title |-> IF formTitle = << >> THEN TitleRequired ELSE "",
                     slug |-> IF manualBad \/ slug = << >> THEN SlugInvalid ELSE ""]]

NoErrors == [title |-> "", slug |-> ""]

Response(status, location, errors) ==
    [status |-> status, location |-> location, errors |-> errors]

\* every failed Create is answered as an internal failure
CreateFailureOpaque(err, errors) ==
    Response(StatusInternalServerError, << >>, NoErrors)

\* the answer to a failed Create: a conflict re-renders the form
CreateFailure(err, errors) ==
    IF ErrorsIs(err, ErrConflict)
    THEN Response(StatusUnprocessableEntity, << >>,
                  [errors EXCEPT !.slug = SlugExists])
    ELSE Response(StatusInternalServerError, << >>, NoErrors)

\* stubAlbums.Create: records the call and returns what the test configured
StubAlbumsCreate(slug, title, description, createErr) ==
    /\ last' = Call("Albums.Create", 0, 0, slug, createErr, NoAlbum, NoPhoto, << >>)
    /\ UNCHANGED <<albums, photos, albumSeq, photoSeq, clock>>

\* AlbumHandler.Create; h.albums is the SQLite repository, or a stub whose
\* Create returns createErr
CreateHandlerOn(stub, createErr) ==
    /\ req.handler = "Create"
    /\ resp = NoResponse
    /\ LET form == CreateForm(req.title, req.slug, req.description)
       IN  IF form.Errors # NoErrors
           THEN /\ resp' = Response(StatusUnprocessableEntity, << >>, form.Errors)
                /\ UNCHANGED <<albums, photos, albumSeq, photoSeq, clock, last>>
           ELSE /\ IF stub
                   THEN StubAlbumsCreate(form.slug, form.Title, form.Description,
                                         createErr)
                   ELSE AlbumsCreate(form.slug, form.Title, form.Description)
                /\ resp' = IF last'.err = NoError
                           THEN Response(StatusSeeOther, <<"/albums">>, NoErrors)
                           ELSE CreateFailure(last'.err, form.Errors)
    /\ UNCHANGED <<req, disk, up>>

\* AlbumHandler.Create over the SQLite repository
CreateHandler == CreateHandlerOn(FALSE, NoError)

\* POST /albums with a title and no slug, or with a slug and the title "a"
CreateRequests ==
    {[handler |-> "Create", title |-> t, slug |-> << >>, description |-> << >>] :
        t \in Strings}
    \cup
    {[handler |-> "Create", title |-> <<"a">>, slug |-> s, description |-> << >>] :
        s \in Strings}

\* the album "a", created at time 0 in an empty store
AlbumA == [ID |-> 1, Slug |-> <<"a">>, Title |-> <<"a">>, Description |-> << >>,
           CoverPhotoID |-> Null, CreatedAt |-> 0, UpdatedAt |-> 0]

\* one creation request arrives at a store that is empty or holds album "a"
InitCreate ==
    /\ albums \in {{}, {AlbumA}}
    /\ albumSeq = Cardinality(albums)
    /\ photos = {}
    /\ photoSeq = 0
    /\ clock = 0
    /\ last = Call("Open", 0, 0, DBPath, NoError, NoAlbum, NoPhoto, << >>)
    /\ req \in CreateRequests
    /\ resp = NoResponse
    /\ disk = NoFiles
    /\ up = NoUpload

NextCreate == CreateHandler

SpecCreate == InitCreate /\ [][NextCreate]_vars

\* the errors a repository behind storage.Albums may return from Create
StubErrors ==
    {NoError, ErrConflict, Wrap("sqlite: create album", ErrConflict),
     CreateAlbumError(ErrUniqueConstraint), <<"boom">>}

\* AlbumHandler.Create over a stub repository
CreateHandlerStub ==
    \E createErr \in StubErrors : CreateHandlerOn(TRUE, createErr)

NextCreateStub == CreateHandlerStub

SpecCreateStub == InitCreate /\ [][NextCreateStub]_vars

----------------------------------------------------------------------------
(* The album update handler (POST /albums/:slug/edit).  The handler makes  *)
(* two repository calls, GetBySlug and Update; other requests may run      *)
(* between them.  req.step is the handler's position and req.current the   *)
(* album that the lookup returned.                                         *)

EditSlugs == {<< >>, <<"a">>, <<"b">>}

EditTitles == {<<" ">>, <<"U">>}

EditDescriptions == {<<"d">>}

EditRequests ==
    {[handler |-> "Update", slug |-> s, title |-> t, description |-> d,
      step |-> "received", current |-> NoAlbum] :
        s \in EditSlugs, t \in EditTitles, d \in EditDescriptions}

\* the router hands a request to AlbumHandler.Update
UpdateHandlerReceive(r) ==
    /\ req.handler = "none" \/ resp # NoResponse
    /\ req' = r
    /\ resp' = NoResponse
    /\ UNCHANGED <<albums, photos, albumSeq, photoSeq, clock, last, disk, up>>

\* every failed repository call is answered as an internal failure
UpdateFailureOpaque(err) == Response(StatusInternalServerError, << >>, NoErrors)

\* the answer to a failed repository call of the update handler
UpdateFailure(err) ==
    IF ErrorsIs(err, ErrNotFound)
    THEN Response(StatusNotFound, << >>, NoErrors)
    ELSE Response(StatusInternalServerError, << >>, NoErrors)

\* validation of the edit form: only the title is required
EditForm(title, description) ==
    [Title |-> TrimSpace(title),
     Description |-> TrimSpace(description),
     Errors |-> [title |-> IF TrimSpace(title) = << >> THEN TitleRequired ELSE "",
                 slug |-> ""]]

\* AlbumHandler.Update up to its Update call: the slug parameter, the
\* lookup, and the validation of the form
UpdateHandlerLookup ==
    /\ req.handler = "Update"
    /\ req.step = "received"
    /\ IF TrimSpace(req.slug) = << >>
       THEN /\ resp' = Response(StatusNotFound, << >>, NoErrors)
            /\ req' = [req EXCEPT !.step = "done"]
            /\ UNCHANGED <<albums, photos, albumSeq, photoSeq, clock, last>>
       ELSE /\ GetBySlug(TrimSpace(req.slug))
            /\ IF last'.err # NoError
               THEN /\ resp' = UpdateFailure(last'.err)
                    /\ req' = [req EXCEPT !.step = "done"]
               ELSE IF EditForm(req.title, req.description).Errors # NoErrors
               THEN /\ resp' = Response(StatusUnprocessableEntity, << >>,
                                        EditForm(req.title, req.description).Errors)
                    /\ req' = [req EXCEPT !.step = "done", !.current = last'.album]
               ELSE /\ resp' = resp
                    /\ req' = [req EXCEPT !.step = "looked-up",
                                          !.current = last'.album]
    /\ UNCHANGED <<disk, up>>

\* Update whose UPDATE statement fails in the driver
UpdateExecError(id, title, description) ==
    /\ last' = UpdateCall(id, title, description,
                          Wrap("sqlite: update album", <<"database is locked">>),
                          NoAlbum)
    /\ UNCHANGED <<albums, photos, albumSeq, photoSeq, clock>>

\* AlbumHandler.Update from its Update call on
UpdateHandlerUpdate(execOK) ==
    /\ req.handler = "Update"
    /\ req.step = "looked-up"
    /\ LET form == EditForm(req.title, req.description)
           id   == req.current.ID
       IN  IF execOK
           THEN Update(id, NotNull(form.Title), NotNull(form.Description))
           ELSE UpdateExecError(id, NotNull(form.Title), NotNull(form.Description))
    /\ resp' = IF last'.err = NoError
               THEN Response(StatusSeeOther, <<"/albums/">> \o last'.album.Slug,
                             NoErrors)
               ELSE UpdateFailure(last'.err)
    /\ req' = [req EXCEPT !.step = "done"]
    /\ UNCHANGED <<disk, up>>

\* the album was created with a title and a description of its own; every
\* repository operation on albums runs between the steps of the handler
NextEdit ==
    \/ \E r \in EditRequests : UpdateHandlerReceive(r)
    \/ UpdateHandlerLookup
    \/ \E execOK \in BOOLEAN : UpdateHandlerUpdate(execOK)
    \/ \E slug \in Slugs, title \in Titles, description \in Descriptions :
          AlbumCap(slug) /\ Other(AlbumsCreate(slug, title, description))
    \/ \E id \in AlbumIDs : Other(Delete(id))
    \/ \E id \in AlbumIDs, title \in Titles :
          Other(Update(id, NotNull(title), Null))
    \/ \E a \in AlbumIDs, f \in TimedFilenames, c \in Captions, t \in TakenAts :
          PhotoCap(a, f, 1) /\ Other(PhotosCreate(a, f, c, t))
    \/ \E a \in AlbumIDs, p \in PhotoIDs : Other(SetCoverPhoto(a, p))
    \/ \E a \in AlbumIDs : Other(ClearCoverPhoto(a))

SpecEdit == Init /\ [][NextEdit]_vars

----------------------------------------------------------------------------
(* The photo ingestion pipeline (POST /albums/:slug/photos).  One attempt  *)
(* is in flight at a time; up.state is its position:                       *)
(*   received, file-validated, filename-assigned, directory-ready,         *)
(*   written-to-disk, sanitized, metadata-parsed, persisted                *)
(* and, on failure, file-removed (after the write) and failed.             *)
(* Removing the file that the attempt has just written always succeeds.    *)

NoFile == [present |-> FALSE, ext |-> << >>, bytes |-> "none"]

File(ext, bytes) == [present |-> TRUE, ext |-> ext, bytes |-> bytes]

\* the uploaded payloads: a JPEG, an undecodable JPEG, any other content
Files == {NoFile, File(<<".", "B">>, "jpeg"), File(<<".", "B">>, "jpeg-undecodable"),
          File(<<".", "a">>, "other")}

\* the capture-time field: absent, two well-formed times, a malformed value
TakenAtTexts == {<< >>, <<"1">>, <<"2">>, <<"!">>}

\* every capture-time value is accepted
ParseTakenAtLenient(text) ==
    IF text = <<"2">> THEN [ok |-> TRUE, time |-> NotNull(Time(2, "UTC"))]
    ELSE IF text = << >> THEN [ok |-> TRUE, time |-> NoTime]
    ELSE [ok |-> TRUE, time |-> NotNull(Time(1, "UTC"))]

\* time.Parse("2006-01-02T15:04", text): the wall-clock reading of the text
\* taken in UTC, or an error
ParseTakenAt(text) ==
    IF text = << >> THEN [ok |-> TRUE, time |-> NoTime]
    ELSE IF text = <<"1">> THEN [ok |-> TRUE, time |-> NotNull(Time(1, "UTC"))]
    ELSE IF text = <<"2">> THEN [ok |-> TRUE, time |-> NotNull(Time(2, "UTC"))]
    ELSE [ok |-> FALSE, time |-> NoTime]

UploadSlugs == {<<"a">>}

UploadRequests ==
    {[handler |-> "UploadPhoto", slug |-> s, file |-> f, caption |-> << >>,
      taken_at |-> t] : s \in UploadSlugs, f \in Files, t \in TakenAtTexts}

\* the token of the n-th attempt: no two attempts draw the same token
Token(n) == [i \in 1..n |-> "1"]

\* timestamp prefix, random token and the lowercased extension
GeneratedFilename(now, n, ext) ==
    [i \in 1..now |-> "1"] \o <<"-">> \o Token(n) \o ToLower(ext)

\* the photo row holds the bare generated filename
StoredPathBare(slug, filename) == filename

\* the Filename of the photo row: <slug>/<generated-filename>
StoredPath(slug, filename) == slug \o <<"/">> \o filename

DiskFile(dir, name, bytes) == [dir |-> dir, name |-> name, bytes |-> bytes]

\* a sanitizer that returns every payload as it received it
SanitizeNothing(bytes) == bytes

\* the sanitizer: a JPEG is re-encoded upright without metadata, anything
\* else passes unchanged
Sanitize(bytes) == IF bytes = "jpeg" THEN "jpeg-sanitized" ELSE bytes

\* the attempt leaves its file on disk when a later step fails
KeepUpload(d, dir, name) == d

\* os.Remove of the file the attempt wrote
RemoveUpload(d, dir, name) ==
    [d EXCEPT !.files = {f \in d.files : ~ (f.dir = dir /\ f.name = name)}]

\* every failure to resolve the album is reported as an internal failure
ResolveStatusInternal(err) == StatusInternalServerError

\* the outcome of a failed album lookup
ResolveStatus(err) ==
    IF ErrorsIs(err, ErrNotFound) THEN StatusNotFound
    ELSE StatusInternalServerError

UploadReceive(r) ==
    /\ up.state \in {"idle", "persisted", "failed"}
    /\ up.n < MaxUploads
    /\ req' = r
    /\ resp' = NoResponse
    /\ up' = [NoUpload EXCEPT !.state = "received", !.n = up.n + 1]
    /\ UNCHANGED <<albums, photos, albumSeq, photoSeq, clock, last, disk>>

\* steps 1 and 2: resolve the album by slug, require a file payload
UploadValidate ==
    /\ up.state = "received"
    /\ GetBySlug(req.slug)
    /\ IF last'.err # NoError
       THEN /\ up' = [up EXCEPT !.state = "failed"]
            /\ resp' = Response(ResolveStatus(last'.err), << >>, NoErrors)
       ELSE IF ~ req.file.present
       THEN /\ up' = [up EXCEPT !.state = "failed", !.album = last'.album]
            /\ resp' = Response(StatusBadRequest, << >>, NoErrors)
       ELSE /\ up' = [up EXCEPT !.state = "file-validated", !.album = last'.album]
            /\ UNCHANGED resp
    /\ UNCHANGED <<req, disk>>

\* step 3
UploadAssignFilename ==
    /\ up.state = "file-validated"
    /\ up' = [up EXCEPT !.state = "filename-assigned",
                        !.filename = GeneratedFilename(clock, up.n, req.file.ext)]
    /\ UNCHANGED <<albums, photos, albumSeq, photoSeq, clock, last, req, resp, disk>>

\* step 4
UploadEnsureDir ==
    /\ up.state = "filename-assigned"
    /\ disk' = [disk EXCEPT !.dirs = @ \cup {up.album.Slug}]
    /\ up' = [up EXCEPT !.state = "directory-ready"]
    /\ UNCHANGED <<albums, photos, albumSeq, photoSeq, clock, last, req, resp>>

\* step 5
UploadWrite ==
    /\ up.state = "directory-ready"
    /\ disk' = [disk EXCEPT !.files =
                   @ \cup {DiskFile(up.album.Slug, up.filename, req.file.bytes)}]
    /\ up' = [up EXCEPT !.state = "written-to-disk"]
    /\ UNCHANGED <<albums, photos, albumSeq, photoSeq, clock, last, req, resp>>

\* a step after the write failed and the attempt ends with the file in place
UploadAbortNoRollback(status) ==
    /\ disk' = disk
    /\ up' = [up EXCEPT !.state = "failed", !.status = status]

\* a step after the write failed: the file is removed, status is to be reported
UploadAbort(status) ==
    /\ disk' = RemoveUpload(disk, up.album.Slug, up.filename)
    /\ up' = [up EXCEPT !.state = "file-removed", !.status = status]

UploadSanitize ==
    /\ up.state = "written-to-disk"
    /\ IF req.file.bytes = "jpeg-undecodable"
       THEN UploadAbort(StatusBadRequest)
       ELSE /\ disk' = [disk EXCEPT !.files =
                          {IF f.dir = up.album.Slug /\ f.name = up.filename
                           THEN [f EXCEPT !.bytes = Sanitize(f.bytes)]
                           ELSE f : f \in @}]
            /\ up' = [up EXCEPT !.state = "sanitized"]
    /\ UNCHANGED <<albums, photos, albumSeq, photoSeq, clock, last, req, resp>>

\* step 6
UploadParseMetadata ==
    /\ up.state = "sanitized"
    /\ IF ~ ParseTakenAt(req.taken_at).ok
       THEN UploadAbort(StatusBadRequest)
       ELSE /\ up' = [up EXCEPT !.state = "metadata-parsed",
                                !.takenAt = ParseTakenAt(req.taken_at).time]
            /\ UNCHANGED disk
    /\ UNCHANGED <<albums, photos, albumSeq, photoSeq, clock, last, req, resp>>

\* Photos.Create with the storage engine unavailable
PhotosCreateUnavailable(albumID, filename, takenAt) ==
    /\ last' = Call("Photos.Create", albumID, 0, filename,
                    Wrap("sqlite: create photo", <<"database is unavailable">>),
                    NoAlbum, NoPhoto, << >>)
                  @@ [input |-> [TakenAt |-> takenAt]]
    /\ UNCHANGED <<albums, photos, albumSeq, photoSeq, clock>>

\* steps 7 and 8
UploadPersist(available) ==
    /\ up.state = "metadata-parsed"
    /\ IF available
       THEN PhotosCreate(up.album.ID, StoredPath(up.album.Slug, up.filename),
                         req.caption, up.takenAt)
       ELSE PhotosCreateUnavailable(up.album.ID,
                                    StoredPath(up.album.Slug, up.filename),
                                    up.takenAt)
    /\ IF last'.err # NoError
       THEN /\ disk' = RemoveUpload(disk, up.album.Slug, up.filename)
            /\ up' = [up EXCEPT !.state = "file-removed", !.creates = @ + 1,
                                !.status = StatusInternalServerError]
            /\ UNCHANGED resp
       ELSE /\ up' = [up EXCEPT !.state = "persisted", !.creates = @ + 1]
            /\ resp' = Response(StatusSeeOther,
                                <<"/albums/">> \o up.album.Slug \o <<"/edit">>,
                                NoErrors)
            /\ UNCHANGED disk
    /\ UNCHANGED req

\* the failure is reported after the file was removed
UploadFail ==
    /\ up.state = "file-removed"
    /\ up' = [up EXCEPT !.state = "failed"]
    /\ resp' = Response(up.status, << >>, NoErrors)
    /\ UNCHANGED <<albums, photos, albumSeq, photoSeq, clock, last, req, disk>>

NextUpload ==
    \/ \E r \in UploadRequests : UploadReceive(r)
    \/ UploadValidate
    \/ UploadAssignFilename
    \/ UploadEnsureDir
    \/ UploadWrite
    \/ UploadSanitize
    \/ UploadParseMetadata
    \/ \E available \in BOOLEAN : UploadPersist(available)
    \/ UploadFail
    \/ \E slug \in UploadSlugs, title \in Titles, description \in Descriptions :
          AlbumCap(slug) /\ Other(AlbumsCreate(slug, title, description))
    \/ \E id \in AlbumIDs : Other(Delete(id))

SpecUpload == Init /\ [][NextUpload]_vars

\* the steps of the attempt in flight: the handler runs them one after the
\* other without waiting for anything but the calls it makes
UploadStep ==
    \/ UploadValidate
    \/ UploadAssignFilename
    \/ UploadEnsureDir
    \/ UploadWrite
    \/ UploadSanitize
    \/ UploadParseMetadata
    \/ \E available \in BOOLEAN : UploadPersist(available)
    \/ UploadFail

\* the handler's goroutine is always scheduled again
SpecUploadLive == SpecUpload /\ WF_vars(UploadStep)

----------------------------------------------------------------------------
(* The specification of capture times: uploads with a capture-time field,  *)
(* Photos.Create called with times of either location, Photos.GetByID.     *)

RoundTripFiles == {File(<<".", "B">>, "jpeg")}

RoundTripTexts == {<< >>, <<"1">>, <<"2">>}

RoundTripRequests ==
    {[handler |-> "UploadPhoto", slug |-> s, file |-> f, caption |-> << >>,
      taken_at |-> t] : s \in UploadSlugs, f \in RoundTripFiles,
                        t \in RoundTripTexts}

\* the times a caller of Photos.Create may pass: nil, or an instant read in
\* UTC or in the local zone
ZonedTakenAts ==
    {NoTime} \cup {NotNull(Time(unix, zone)) : unix \in 1..2, zone \in {"UTC", "Local"}}

NextRoundTrip ==
    \/ \E r \in RoundTripRequests : UploadReceive(r)
    \/ UploadValidate
    \/ UploadAssignFilename
    \/ UploadEnsureDir
    \/ UploadWrite
    \/ UploadSanitize
    \/ UploadParseMetadata
    \/ \E available \in BOOLEAN : UploadPersist(available)
    \/ UploadFail
    \/ \E slug \in UploadSlugs, title \in Titles, description \in Descriptions :
          AlbumCap(slug) /\ Other(AlbumsCreate(slug, title, description))
    \/ \E a \in AlbumIDs, c \in Captions, t \in ZonedTakenAts :
          /\ PhotoCap(a, ListFilename(photoSeq + 1), MaxPhotoID)
          /\ Other(PhotosCreate(a, ListFilename(photoSeq + 1), c, t))
    \/ \E p \in PhotoIDs : Other(PhotoGetByID(p))

SpecRoundTrip == Init /\ [][NextRoundTrip]_vars

----------------------------------------------------------------------------
(* Repository calls statement by statement.  The pool holds one connection *)
(* (db.SetMaxOpenConns(1)), which a call takes for each statement and      *)
(* gives back after it; no call opens a transaction.  One caller's call is *)
(* followed through its statements (req.step: between two statements, or  *)
(* returned) while the calls of other callers run in between.              *)

\* the call in flight: its operation, its position, the IDs it addresses
\* and the row it has inserted
InFlight(op, step, a, p, album, photo) ==
    [handler |-> op, step |-> step, a |-> a, p |-> p, album |-> album,
     photo |-> photo]

\* the caller is in no call
CallIdle == IF req.handler = "none" THEN TRUE ELSE req.step = "returned"

\* SetCoverPhoto, first statement: SELECT 1 FROM photos WHERE id = ? AND
\* album_id = ?
SetCoverPhotoSelect(albumID, photoID) ==
    /\ CallIdle
    /\ IF ~ PhotoOwned(photos, photoID, albumID)
       THEN /\ last' = Call("Albums.SetCoverPhoto", albumID, photoID, << >>,
                            ErrNotFound, NoAlbum, NoPhoto, << >>)
            /\ req' = InFlight("Albums.SetCoverPhoto", "returned", albumID,
                               photoID, NoAlbum, NoPhoto)
       ELSE /\ last' = last
            /\ req' = InFlight("Albums.SetCoverPhoto", "selected", albumID,
                               photoID, NoAlbum, NoPhoto)
    /\ UNCHANGED <<albums, photos, albumSeq, photoSeq, clock, resp, disk, up>>

\* SetCoverPhoto, second statement: UPDATE albums SET cover_photo_id = ?,
\* updated_at = ? WHERE id = ?
SetCoverPhotoUpdate ==
    /\ req.handler = "Albums.SetCoverPhoto"
    /\ req.step = "selected"
    /\ albums' = SetCover(albums, req.a, NotNull(req.p), clock)
    /\ last' = Call("Albums.SetCoverPhoto", req.a, req.p, << >>,
                    IF \E r \in albums : r.ID = req.a THEN NoError ELSE ErrNotFound,
                    NoAlbum, NoPhoto, << >>)
    /\ req' = [req EXCEPT !.step = "returned"]
    /\ UNCHANGED <<photos, albumSeq, photoSeq, clock, resp, disk, up>>

\* Albums.Create, first statement: INSERT INTO albums
AlbumsCreateInsert(slug, title, description) ==
    LET now == clock
        id  == NextID(albums, albumSeq)
        row == [ID |-> id, Slug |-> slug, Title |-> title,
                Description |-> description, CoverPhotoID |-> Null,
                CreatedAt |-> now, UpdatedAt |-> now]
    IN  /\ CallIdle
        /\ IF SlugUnique(albums, slug)
           THEN /\ albums' = albums \cup {row}
                /\ albumSeq' = id
                /\ last' = last
                /\ req' = InFlight("Albums.Create", "inserted", id, 0, row, NoPhoto)
           ELSE /\ last' = Call("Albums.Create", 0, 0, slug,
                                CreateAlbumError(ErrUniqueConstraint),
                                NoAlbum, NoPhoto, << >>)
                /\ req' = InFlight("Albums.Create", "returned", 0, 0, NoAlbum,
                                   NoPhoto)
                /\ UNCHANGED <<albums, albumSeq>>
        /\ UNCHANGED <<photos, photoSeq, clock, resp, disk, up>>

\* Albums.Create, second statement: r.GetByID(ctx, id)
AlbumsCreateGetByID ==
    /\ req.handler = "Albums.Create"
    /\ req.step = "inserted"
    /\ last' = Call("Albums.Create", 0, 0, req.album.Slug,
                    AlbumsGetByID(albums, req.a).err,
                    AlbumsGetByID(albums, req.a).album, NoPhoto, << >>)
    /\ req' = [req EXCEPT !.step = "returned"]
    /\ UNCHANGED <<albums, photos, albumSeq, photoSeq, clock, resp, disk, up>>

\* Photos.Create, first statement: INSERT INTO photos
PhotosCreateInsert(albumID, filename, caption, takenAt) ==
    LET now == clock
        id  == NextID(photos, photoSeq)
        err == InsertPhotoError(albums, photos, albumID, filename)
        row == [ID |-> id, AlbumID |-> albumID, Filename |-> filename,
                Caption |-> caption, TakenAt |-> StoredTime(takenAt),
                CreatedAt |-> now, UpdatedAt |-> now]
    IN  /\ CallIdle
        /\ IF err = NoError
           THEN /\ photos' = photos \cup {row}
                /\ photoSeq' = id
                /\ last' = last
                /\ req' = InFlight("Photos.Create", "inserted", albumID, id,
                                   NoAlbum, row)
           ELSE /\ last' = Call("Photos.Create", albumID, 0, filename,
                                Wrap("sqlite: create photo", err),
                                NoAlbum, NoPhoto, << >>)
                              @@ [input |-> [TakenAt |-> takenAt]]
                /\ req' = InFlight("Photos.Create", "returned", albumID, 0,
                                   NoAlbum, NoPhoto)
                /\ UNCHANGED <<photos, photoSeq>>
        /\ UNCHANGED <<albums, albumSeq, clock, resp, disk, up>>

\* Photos.Create, second statement: r.GetByID(ctx, id)
PhotosCreateGetByID ==
    /\ req.handler = "Photos.Create"
    /\ req.step = "inserted"
    /\ last' = Call("Photos.Create", req.a, 0, req.photo.Filename,
                    PhotosGetByID(photos, req.p).err, NoAlbum,
                    PhotosGetByID(photos, req.p).photo, << >>)
                  @@ [input |-> [TakenAt |-> req.photo.TakenAt]]
    /\ req' = [req EXCEPT !.step = "returned"]
    /\ UNCHANGED <<albums, photos, albumSeq, photoSeq, clock, resp, disk, up>>

\* the calls of the other callers take the connection for all their
\* statements at once
NextConcurrent ==
    \/ \E a \in AlbumIDs, p \in PhotoIDs : SetCoverPhotoSelect(a, p)
    \/ SetCoverPhotoUpdate
    \/ \E slug \in Slugs, title \in Titles, description \in Descriptions :
          AlbumCap(slug) /\ AlbumsCreateInsert(slug, title, description)
    \/ AlbumsCreateGetByID
    \/ \E a \in AlbumIDs, f \in TimedFilenames, c \in Captions, t \in TakenAts :
          PhotoCap(a, f, MaxPhotoID) /\ PhotosCreateInsert(a, f, c, t)
    \/ PhotosCreateGetByID
    \/ \E id \in AlbumIDs, title \in UpdateTitles :
          Other(Update(id, NotNull(title), Null))
    \/ \E id \in AlbumIDs : Other(Delete(id))
    \/ \E p \in PhotoIDs : Other(PhotoDelete(p))
    \/ \E a \in AlbumIDs, p \in PhotoIDs : Other(SetCoverPhoto(a, p))
    \/ \E a \in AlbumIDs : Other(ClearCoverPhoto(a))

SpecConcurrent == Init /\ [][NextConcurrent]_vars

----------------------------------------------------------------------------
(* The router, the admin middleware and the login handlers.  A URI is a    *)
(* sequence of tokens: "/", "?", "=" and words.  req.stage is the position *)
(* of the request: received, middleware, handler, aborted, served.         *)

StatusOK == 200

StatusFound == 302

StatusUnauthorized == 401

\* cfg.AdminPassword: trimmed and not empty
AdminPassword == <<"p">>

\* middleware.adminCookieValue
adminCookieValue == <<"1">>

NoCookie == [present |-> FALSE, value |-> << >>]

Cookie(value) == [present |-> TRUE, value |-> value]

\* the admin cookie as the request carries it: absent, "1", "0", and "%31",
\* the percent-encoding of "1"
RequestCookies == {NoCookie, Cookie(<<"1">>), Cookie(<<"0">>), Cookie(<<"%31">>)}

\* url.QueryUnescape of a cookie value, as gin's Context.Cookie applies it
QueryUnescape(value) ==
    [i \in 1..Len(value) |-> IF value[i] = "%31" THEN "1" ELSE value[i]]

\* url.QueryEscape
QueryEscape(value) ==
    [i \in 1..Len(value) |->
        CASE value[i] = "/" -> "%2F"
          [] value[i] = "?" -> "%3F"
          [] value[i] = "=" -> "%3D"
          [] value[i] = " " -> "+"
          [] OTHER -> value[i]]

\* strings.HasPrefix
HasPrefix(value, prefix) ==
    /\ Len(value) >= Len(prefix)
    /\ SubSeq(value, 1, Len(prefix)) = prefix

\* a check that accepts any admin cookie that is present
CookiePresent(cookie) == cookie.present

\* c.Cookie(cookieName) returned no error and the admin value
CookieValid(cookie) ==
    cookie.present /\ QueryUnescape(cookie.value) = adminCookieValue

Methods == {"GET", "POST"}

AuthPaths ==
    {<<"/">>,
     <<"/", "albums">>,
     <<"/", "albums", "/", "new">>,
     <<"/", "albums", "/", "a">>,
     <<"/", "albums", "/", "a", "/", "edit">>,
     <<"/", "albums", "/", "a", "/", "photos">>,
     <<"/", "a", "/", "a">>,
     <<"/", "login">>}

AuthQueries == {<< >>, <<"?", "x", "=", "1">>}

Passcodes == {<< >>, <<" ">>, <<"p">>, <<" ", "p">>, <<"q">>}

NextValues ==
    {<< >>, <<"/", "albums", "/", "a">>, <<"/", "/", "evil">>,
     <<"https:", "/", "/", "evil">>, <<"albums">>}

AuthRequest(method, path, query, cookie, passcode, next) ==
    [handler |-> "unrouted", stage |-> "received", method |-> method,
     path |-> path, query |-> query, cookie |-> cookie,
     passcode |-> passcode, next |-> next]

\* requests to every path with every cookie, and login forms
AuthRequests ==
    {AuthRequest(m, p, q, c, << >>, << >>) :
        m \in Methods, p \in AuthPaths, q \in AuthQueries, c \in RequestCookies}
    \cup
    {AuthRequest(m, <<"/", "login">>, << >>, NoCookie, w, n) :
        m \in Methods, w \in Passcodes, n \in NextValues}

\* the handler that the routing tree of router.New selects; a static
\* segment is preferred to a parameter
RouteHandler(method, path) ==
    LET n == Len(path)
        albumsPath == n >= 2 /\ path[1] = "/" /\ path[2] = "albums"
    IN  CASE albumsPath /\ n = 2 /\ method = "GET" -> "List"
          [] albumsPath /\ n = 2 /\ method = "POST" -> "Create"
          [] albumsPath /\ n = 4 /\ path[3] = "/" /\ path[4] = "new"
                /\ method = "GET" -> "New"
          [] albumsPath /\ n = 4 /\ path[3] = "/" /\ path[4] # "new"
                /\ method = "GET" -> "View"
          [] albumsPath /\ n = 6 /\ path[3] = "/" /\ path[5] = "/"
                /\ path[6] = "edit" /\ method = "GET" -> "Edit"
          [] albumsPath /\ n = 6 /\ path[3] = "/" /\ path[5] = "/"
                /\ path[6] = "edit" /\ method = "POST" -> "Update"
          [] albumsPath /\ n = 6 /\ path[3] = "/" /\ path[5] = "/"
                /\ path[6] = "photos" /\ method = "POST" -> "UploadPhoto"
          [] n = 4 /\ path[1] = "/" /\ path[2] = "a" /\ path[3] = "/"
                /\ method = "GET" -> "Public"
          [] path = <<"/", "login">> /\ method = "GET" -> "ShowLogin"
          [] path = <<"/", "login">> /\ method = "POST" -> "SubmitLogin"
          [] OTHER -> "NoRoute"

\* the handlers registered on the group that uses RequireAdmin
ProtectedHandlers ==
    {"List", "New", "Create", "Edit", "Update", "UploadPhoto", "View"}

AuthResponse(status, location, cookie, next) ==
    [status |-> status, location |-> location, cookie |-> cookie, next |-> next]

\* gin.Engine.ServeHTTP: the handler chain of the matching route
Route ==
    /\ req.stage = "received"
    /\ LET h == RouteHandler(req.method, req.path)
       IN  IF h = "NoRoute"
           THEN /\ req' = [req EXCEPT !.handler = h, !.stage = "served"]
                /\ resp' = AuthResponse(StatusNotFound, << >>, NoCookie, << >>)
           ELSE /\ req' = [req EXCEPT !.handler = h,
                                      !.stage = IF h \in ProtectedHandlers
                                                THEN "middleware" ELSE "handler"]
                /\ resp' = resp
    /\ UNCHANGED <<albums, photos, albumSeq, photoSeq, clock, last, disk, up>>

\* c.Request.URL.RequestURI()
RequestURI(r) == r.path \o r.query

RequireAdmin ==
    /\ req.stage = "middleware"
    /\ IF CookieValid(req.cookie)
       THEN /\ req' = [req EXCEPT !.stage = "handler"]
            /\ resp' = resp
       ELSE LET target == RequestURI(req)
                redirectURL == IF target # << >> /\ target # <<"/">>
                               THEN <<"/login", "?", "next", "=">>
                                       \o QueryEscape(target)
                               ELSE <<"/login">>
            IN  /\ resp' = AuthResponse(StatusFound, redirectURL, NoCookie, << >>)
                /\ req' = [req EXCEPT !.stage = "aborted"]
    /\ UNCHANGED <<albums, photos, albumSeq, photoSeq, clock, last, disk, up>>

\* the next value under the rule of ShowLogin
SameSiteNext(next) ==
    IF next # << >> /\ (~ HasPrefix(next, <<"/">>) \/ HasPrefix(next, <<"/", "/">>))
    THEN << >>
    ELSE next

ShowLogin ==
    /\ req.stage = "handler"
    /\ req.handler = "ShowLogin"
    /\ resp' = AuthResponse(StatusOK, << >>, NoCookie,
                            SameSiteNext(TrimSpace(req.next)))
    /\ req' = [req EXCEPT !.stage = "served"]
    /\ UNCHANGED <<albums, photos, albumSeq, photoSeq, clock, last, disk, up>>

SubmitLogin ==
    /\ req.stage = "handler"
    /\ req.handler = "SubmitLogin"
    /\ LET passcode == TrimSpace(req.passcode)
           redirectTo == IF req.next = << >> THEN <<"/", "albums">> ELSE req.next
       IN  resp' = IF passcode = << >>
                   THEN AuthResponse(StatusBadRequest, << >>, NoCookie, << >>)
                   ELSE IF passcode # AdminPassword
                   THEN AuthResponse(StatusUnauthorized, << >>, NoCookie, << >>)
                   ELSE AuthResponse(StatusFound, redirectTo,
                                     Cookie(adminCookieValue), << >>)
    /\ req' = [req EXCEPT !.stage = "served"]
    /\ UNCHANGED <<albums, photos, albumSeq, photoSeq, clock, last, disk, up>>

InitAuth ==
    /\ albums = {}
    /\ photos = {}
    /\ albumSeq = 0
    /\ photoSeq = 0
    /\ clock = 0
    /\ last = Call("Open", 0, 0, DBPath, NoError, NoAlbum, NoPhoto, << >>)
    /\ req \in AuthRequests
    /\ resp = NoResponse
    /\ disk = NoFiles
    /\ up = NoUpload

NextAuth ==
    \/ Route
    \/ RequireAdmin
    \/ ShowLogin
    \/ SubmitLogin

SpecAuth == InitAuth /\ [][NextAuth]_vars

----------------------------------------------------------------------------
(* Properties of the repositories.                                         *)

AlbumsWithSlug(slug) == {r \in albums : r.Slug = slug}

\* C1: an Albums.Create either succeeds or, when the slug is taken, fails with
\* an error that errors.Is recognises as ErrConflict, and afterwards exactly
\* one album has that slug.
C1_DuplicateSlugIsConflict ==
    last.op = "Albums.Create" =>
        /\ Cardinality(AlbumsWithSlug(last.slug)) = 1
        /\ last.err = NoError \/ ErrorsIs(last.err, ErrConflict)

\* C2: every album's CoverPhotoID is null or names an existing photo owned by
\* that album.
C2_CoverPhotoOwnedByAlbum ==
    \A r \in albums :
        r.CoverPhotoID.Valid =>
            \E p \in photos : p.ID = r.CoverPhotoID.V /\ p.AlbumID = r.ID

\* C3: SetCoverPhoto(albumA, p) with p an existing photo of another album
\* returns NotFound and changes no album row (cover and UpdatedAt included).
C3_ForeignCoverIsNotFound ==
    [][(/\ last'.op = "Albums.SetCoverPhoto"
        /\ \E p \in photos : p.ID = last'.p /\ p.AlbumID # last'.a)
       => (last'.err = ErrNotFound /\ albums' = albums)]_vars

\* a foreign photo was refused as cover of an existing album whose UpdatedAt
\* is older than the clock
C3_Witness ==
    /\ last.op = "Albums.SetCoverPhoto"
    /\ last.err = ErrNotFound
    /\ \E p \in photos : p.ID = last.p /\ p.AlbumID # last.a
    /\ \E r \in albums : r.ID = last.a /\ r.UpdatedAt < clock

\* C4: a successful Albums.Delete(id) removes exactly the photos of album id:
\* ListByAlbum(id) is empty, GetByID of each former photo is NotFound, and the
\* photos of other albums stay as they were.
C4_DeleteCascadesToPhotos ==
    [][(last'.op = "Albums.Delete" /\ last'.err = NoError) =>
        /\ PhotosListByAlbum(photos', last'.a) = << >>
        /\ \A p \in photos :
              p.AlbumID = last'.a => PhotosGetByID(photos', p.ID).err = ErrNotFound
        /\ \A p \in photos :
              p.AlbumID # last'.a => PhotosGetByID(photos', p.ID).photo = p
        /\ photos' \subseteq photos]_vars

\* an album was deleted, a photo is gone and a photo of another album is left
C4_Witness ==
    /\ last.op = "Albums.Delete"
    /\ last.err = NoError
    /\ photos # {}
    /\ Cardinality(photos) < photoSeq
    /\ \A p \in photos : p.AlbumID # last.a

\* the order the listing promises: dated before undated, dated by capture
\* time, then by creation time, then by ID
ListedBefore(x, y) ==
    \/ x.TakenAt.Valid /\ ~ y.TakenAt.Valid
    \/ x.TakenAt.Valid /\ y.TakenAt.Valid /\ x.TakenAt.V.unix < y.TakenAt.V.unix
    \/ /\ x.TakenAt = y.TakenAt
       /\ \/ x.CreatedAt < y.CreatedAt
          \/ x.CreatedAt = y.CreatedAt /\ x.ID < y.ID

\* C9: ListByAlbum(albumID) returns exactly the photos of that album, each
\* once, dated photos first by ascending TakenAt, ties and undated photos by
\* ascending CreatedAt and then ascending ID.
C9_ListByAlbumOrder ==
    last.op = "Photos.ListByAlbum" =>
        /\ {last.list[i] : i \in 1..Len(last.list)}
              = {p \in photos : p.AlbumID = last.a}
        /\ Len(last.list) = Cardinality({p \in photos : p.AlbumID = last.a})
        /\ \A i, j \in 1..Len(last.list) :
              i < j => ListedBefore(last.list[i], last.list[j])

\* photos created with capture times T2, none, T1 are listed T1, T2, none
C9_Witness ==
    /\ last.op = "Photos.ListByAlbum"
    /\ Len(last.list) = 3
    /\ <<last.list[1].ID, last.list[2].ID, last.list[3].ID>> = <<3, 1, 2>>
    /\ <<last.list[1].TakenAt, last.list[2].TakenAt, last.list[3].TakenAt>>
          = <<NotNull(Time(1, "UTC")), NotNull(Time(2, "UTC")), NoTime>>

----------------------------------------------------------------------------
(* Properties of the album creation handler.                               *)

\* lowercase letters and digits in hyphen-separated, non-empty groups
WellFormedSlug(value) ==
    /\ value # << >>
    /\ \A i \in 1..Len(value) :
          IsLower(value[i]) \/ IsDigit(value[i]) \/ value[i] = "-"
    /\ value[1] # "-"
    /\ value[Len(value)] # "-"
    /\ \A i \in 1..(Len(value) - 1) : ~ (value[i] = "-" /\ value[i + 1] = "-")

\* C10: a creation request with no explicit slug either reaches the
\* repository with a slug of lowercase letters and digits joined by single
\* interior hyphens, or is answered 422 without any repository Create.
C10_DerivedSlugWellFormedOrRejected ==
    (req.handler = "Create" /\ req.slug = << >> /\ resp # NoResponse) =>
        \/ /\ last.op = "Albums.Create"
           /\ last.slug = slugify(req.title)
           /\ WellFormedSlug(last.slug)
        \/ /\ last.op # "Albums.Create"
           /\ resp.status = StatusUnprocessableEntity

\* a title with a run of other characters was created under a hyphenated slug
C10_Witness ==
    /\ req.handler = "Create"
    /\ req.slug = << >>
    /\ req.title = <<"B", " ", "!", "1">>
    /\ resp.status = StatusSeeOther
    /\ last.slug = <<"b", "-", "1">>
    /\ \E r \in albums : r.Slug = <<"b", "-", "1">> /\ r.Title = req.title

----------------------------------------------------------------------------
(* Properties of the photo ingestion pipeline.                             *)

\* a file of the given name is present in the album's upload directory
FileOnDisk(d, dir, name) == \E f \in d.files : f.dir = dir /\ f.name = name

\* a photo row of the album is stored under <slug>/<name>
RowPersisted(rows, album, name) ==
    \E p \in rows : /\ p.AlbumID = album.ID
                    /\ p.Filename = album.Slug \o <<"/">> \o name

\* the capture-time value is not of the form YYYY-MM-DDTHH:MM
Unparseable(text) == text \notin {<< >>, <<"1">>, <<"2">>}

Terminal == {"persisted", "failed"}

\* C5: once Photos.Create has failed in an attempt, the file the attempt
\* wrote is gone from the album's upload directory before any response is
\* sent, and the response that follows is an internal failure (500).
C5_CreateFailureRemovesFile ==
    (up.creates = 1 /\ up.state # "persisted") =>
        /\ up.state \in {"file-removed", "failed"}
        /\ ~ FileOnDisk(disk, up.album.Slug, up.filename)
        /\ up.state = "file-removed" => resp = NoResponse
        /\ up.state = "failed" => resp.status = StatusInternalServerError

\* the engine refused the row of an existing album; its directory is empty
C5_Witness ==
    /\ up.state = "failed"
    /\ up.creates = 1
    /\ resp.status = StatusInternalServerError
    /\ last.op = "Photos.Create"
    /\ AlbumsGetByID(albums, up.album.ID).err = NoError
    /\ up.album.Slug \in disk.dirs
    /\ disk.files = {}

\* C6: every finished attempt on an album (the slug resolved) with a file
\* payload and an unparseable capture time ended in 400, without a
\* Photos.Create call and without a file of the attempt in the album's
\* upload directory.
C6_InvalidTakenAtIsBadRequest ==
    (/\ req.handler = "UploadPhoto"
     /\ up.state \in Terminal
     /\ up.album # NoAlbum
     /\ req.file.present
     /\ Unparseable(req.taken_at)) =>
        /\ up.state = "failed"
        /\ resp.status = StatusBadRequest
        /\ up.creates = 0
        /\ ~ FileOnDisk(disk, up.album.Slug, up.filename)

\* a decodable JPEG was written, the capture time was refused, the file removed
C6_Witness ==
    /\ up.state = "failed"
    /\ req.file.bytes = "jpeg"
    /\ req.taken_at = <<"!">>
    /\ up.filename # << >>
    /\ up.album.Slug \in disk.dirs
    /\ resp.status = StatusBadRequest
    /\ disk.files = {}

\* C7: an attempt whose album slug does not resolve ends in 404, one whose
\* album resolves but carries no file ends in 400; in both cases no step of
\* the attempt changes the uploads directory or calls Photos.Create.
C7_EarlyFailureWritesNothing ==
    [][/\ up'.state = "received" => disk' = disk
       /\ (up.state = "received" /\ up'.state # "received") =>
             /\ AlbumsGetBySlug(albums, req.slug).err = ErrNotFound =>
                   /\ up'.state = "failed"
                   /\ resp'.status = StatusNotFound
                   /\ disk' = disk
                   /\ up'.creates = 0
                   /\ photos' = photos
             /\ (AlbumsGetBySlug(albums, req.slug).err = NoError
                    /\ ~ req.file.present) =>
                   /\ up'.state = "failed"
                   /\ resp'.status = StatusBadRequest
                   /\ disk' = disk
                   /\ up'.creates = 0
                   /\ photos' = photos]_vars

\* the second attempt found its album deleted; the file of the first stays
C7_Witness ==
    /\ up.state = "failed"
    /\ up.n = 2
    /\ resp.status = StatusNotFound
    /\ up.creates = 0
    /\ Cardinality(disk.files) = 1
    /\ photos = {}

\* C8: the step that ends an attempt as persisted leaves a photo row of the
\* resolved album with Filename <slug>/<generated-filename>, the file at
\* that path, and a 303 response to /albums/<slug>/edit; the step that ends
\* it as failed leaves neither such a row nor such a file.
C8_FileIffRowAtTermination ==
    [][/\ (up.state # "persisted" /\ up'.state = "persisted") =>
             /\ RowPersisted(photos', up'.album, up'.filename)
             /\ FileOnDisk(disk', up'.album.Slug, up'.filename)
             /\ resp'.status = StatusSeeOther
             /\ resp'.location = <<"/albums/">> \o up'.album.Slug \o <<"/edit">>
       /\ (up.state # "failed" /\ up'.state = "failed") =>
             /\ ~ RowPersisted(photos', up'.album, up'.filename)
             /\ ~ FileOnDisk(disk', up'.album.Slug, up'.filename)
             /\ resp'.status \in {StatusBadRequest, StatusNotFound,
                                  StatusInternalServerError}]_vars

\* a sanitized JPEG with a capture time was stored and its row persisted
C8_Witness ==
    /\ up.state = "persisted"
    /\ resp.status = StatusSeeOther
    /\ \E p \in photos :
          /\ p.Filename = <<"a", "/", "-", "1", ".", "b">>
          /\ p.TakenAt = NotNull(Time(2, "UTC"))
    /\ DiskFile(<<"a">>, <<"-", "1", ".", "b">>, "jpeg-sanitized") \in disk.files

----------------------------------------------------------------------------
(* Properties of the album creation handler with an explicit slug.         *)

\* C11: a creation request with an explicit slug that does not match the
\* pattern after lowercasing is answered 422 without a repository Create;
\* one that matches reaches the repository with exactly the lowercased slug.
C11_ExplicitSlugValidatedNotCorrected ==
    (req.handler = "Create" /\ TrimSpace(req.slug) # << >> /\ resp # NoResponse) =>
        IF slugPattern(ToLower(TrimSpace(req.slug)))
        THEN /\ last.op = "Albums.Create"
             /\ last.slug = ToLower(TrimSpace(req.slug))
        ELSE /\ last.op # "Albums.Create"
             /\ resp.status = StatusUnprocessableEntity

\* the error is, or wraps, the conflict sentinel
IsConflict(err) == \E i \in 1..Len(err) : <<err[i]>> = ErrConflict

\* C12: once the handler has called the repository, a Create that failed
\* with Conflict is answered 422 with the "slug already exists" message,
\* any other failure is answered 500, and the 303 redirect to /albums is
\* sent exactly when Create succeeded.
C12_CreateOutcomes ==
    (req.handler = "Create" /\ resp # NoResponse /\ last.op = "Albums.Create") =>
        /\ IsConflict(last.err) =>
              /\ resp.status = StatusUnprocessableEntity
              /\ resp.errors.slug = SlugExists
        /\ (last.err # NoError /\ ~ IsConflict(last.err)) =>
              /\ resp.status = StatusInternalServerError
              /\ resp.errors = NoErrors
        /\ last.err = NoError <=>
              /\ resp.status = StatusSeeOther
              /\ resp.location = <<"/albums">>

\* a wrapped conflict was answered with the form and its slug message
C12_Witness ==
    /\ resp.status = StatusUnprocessableEntity
    /\ resp.errors.slug = SlugExists
    /\ last.op = "Albums.Create"
    /\ last.err = Wrap("sqlite: create album", ErrConflict)
    /\ last.slug = <<"a", "-", "1">>

----------------------------------------------------------------------------
(* Properties of the cover and update operations.                          *)

\* the album rows apart from the given album
OtherAlbums(rows, id) == {r \in rows : r.ID # id}

\* C13: every ClearCoverPhoto call on an existing album, the second of two
\* calls in a row included, succeeds, leaves CoverPhotoID null and changes
\* no other field of the album except UpdatedAt, no other album, no photo.
C13_ClearCoverPhotoIdempotent ==
    [][\A a \in AlbumIDs :
          (/\ last'.op = "Albums.ClearCoverPhoto"
           /\ last'.a = a
           /\ clock' = clock
           /\ AlbumsGetByID(albums, a).err = NoError) =>
             /\ last'.err = NoError
             /\ AlbumsGetByID(albums', a).err = NoError
             /\ AlbumsGetByID(albums', a).album.CoverPhotoID = Null
             /\ [AlbumsGetByID(albums', a).album EXCEPT !.UpdatedAt = 0]
                   = [AlbumsGetByID(albums, a).album
                         EXCEPT !.CoverPhotoID = Null, !.UpdatedAt = 0]
             /\ OtherAlbums(albums', a) = OtherAlbums(albums, a)
             /\ photos' = photos
             /\ (last.op = "Albums.ClearCoverPhoto" /\ last.a = a) =>
                   AlbumsGetByID(albums, a).album.CoverPhotoID = Null]_vars

\* the cover was cleared at time 1 on an album that still owns a photo
C13_Witness ==
    /\ last.op = "Albums.ClearCoverPhoto"
    /\ last.err = NoError
    /\ \E r \in albums :
          /\ r.ID = last.a
          /\ r.CoverPhotoID = Null
          /\ r.CreatedAt = 0
          /\ r.UpdatedAt = 1
          /\ \E p \in photos : p.AlbumID = r.ID

\* C14: an Update call with neither Title nor Description set changes
\* nothing in the store; it returns the current row of an existing album
\* and NotFound for an absent id.
C14_UpdateWithoutFieldsIsRead ==
    [][(/\ last'.op = "Albums.Update"
        /\ clock' = clock
        /\ ~ last'.input.Title.Valid
        /\ ~ last'.input.Description.Valid) =>
          /\ albums' = albums
          /\ photos' = photos
          /\ IF \E r \in albums : r.ID = last'.a
             THEN /\ last'.err = NoError
                  /\ last'.album \in albums
                  /\ last'.album.ID = last'.a
             ELSE /\ last'.err = ErrNotFound
                  /\ last'.album = NoAlbum]_vars

\* an update without fields returned a row whose UpdatedAt the clock has passed
C14_Witness ==
    /\ last.op = "Albums.Update"
    /\ ~ last.input.Title.Valid
    /\ ~ last.input.Description.Valid
    /\ last.err = NoError
    /\ last.album \in albums
    /\ last.album.Title = <<"U">>
    /\ last.album.UpdatedAt < clock

----------------------------------------------------------------------------
(* Properties of calls addressed to absent rows.                           *)

AlbumOps == {"Albums.GetByID", "Albums.Update", "Albums.Delete",
             "Albums.SetCoverPhoto", "Albums.ClearCoverPhoto"}

PhotoOps == {"Photos.GetByID", "Photos.Delete"}

\* the call that the step makes is addressed to a row that does not exist
AddressedToAbsent(call, albumRows, photoRows) ==
    \/ call.op \in AlbumOps /\ ~ \E r \in albumRows : r.ID = call.a
    \/ call.op = "Albums.GetBySlug" /\ ~ \E r \in albumRows : r.Slug = call.slug
    \/ call.op \in PhotoOps /\ ~ \E p \in photoRows : p.ID = call.p

\* C16: a call addressed to an absent album or photo returns NotFound and
\* leaves every table and ID counter as it was; a successful Delete leaves
\* no row under the deleted ID, so GetByID of it is NotFound.
C16_AbsentIsNotFound ==
    [][/\ (clock' = clock /\ AddressedToAbsent(last', albums, photos)) =>
             /\ ErrorsIs(last'.err, ErrNotFound)
             /\ last'.album = NoAlbum
             /\ last'.photo = NoPhoto
             /\ UNCHANGED <<albums, photos, albumSeq, photoSeq>>
       /\ (last'.op = "Albums.Delete" /\ last'.err = NoError) =>
             /\ ~ \E r \in albums' : r.ID = last'.a
             /\ last'.a <= albumSeq'
       /\ (last'.op = "Photos.Delete" /\ last'.err = NoError) =>
             /\ ~ \E p \in photos' : p.ID = last'.p
             /\ last'.p <= photoSeq'
       /\ (last.op = "Albums.Delete" /\ last.err = NoError
              /\ last'.op = "Albums.GetByID" /\ last'.a = last.a) =>
             ErrorsIs(last'.err, ErrNotFound)
       /\ (last.op = "Photos.Delete" /\ last.err = NoError
              /\ last'.op = "Photos.GetByID" /\ last'.p = last.p) =>
             ErrorsIs(last'.err, ErrNotFound)]_vars

\* album 1 was created and deleted, album 2 exists: GetByID(1) is NotFound
C16_Witness ==
    /\ last.op = "Albums.GetByID"
    /\ last.a = 1
    /\ last.err = ErrNotFound
    /\ albumSeq = 2
    /\ \E r \in albums : r.ID = 2

----------------------------------------------------------------------------
(* Properties of the photo rows.                                           *)

\* the photos of an album stored under a filename
PhotosNamed(albumID, filename) ==
    {p \in photos : p.AlbumID = albumID /\ p.Filename = filename}

\* C17: no two photos share an (AlbumID, Filename) pair, and a Photos.Create
\* refused because its pair is already stored fails with an error that
\* errors.Is recognises as ErrConflict.
C17_FilenameUniqueWithinAlbum ==
    /\ \A p \in photos : Cardinality(PhotosNamed(p.AlbumID, p.Filename)) = 1
    /\ (/\ last.op = "Photos.Create"
        /\ last.err # NoError
        /\ PhotosNamed(last.a, last.slug) # {}) =>
          ErrorsIs(last.err, ErrConflict)

----------------------------------------------------------------------------
(* Properties of Albums.List.                                              *)

\* C18: Albums.List returns every album exactly once, a later CreatedAt
\* first and, among equal CreatedAt, the larger ID first.
C18_ListOrder ==
    last.op = "Albums.List" =>
        /\ {last.list[i] : i \in 1..Len(last.list)} = albums
        /\ Len(last.list) = Cardinality(albums)
        /\ \A i, j \in 1..Len(last.list) :
              i < j =>
                 \/ last.list[i].CreatedAt > last.list[j].CreatedAt
                 \/ /\ last.list[i].CreatedAt = last.list[j].CreatedAt
                    /\ last.list[i].ID > last.list[j].ID

\* albums 1 and 3 were created at time 1 and album 2 at time 0: 3, 1, 2
C18_Witness ==
    /\ last.op = "Albums.List"
    /\ Len(last.list) = 3
    /\ <<last.list[1].ID, last.list[2].ID, last.list[3].ID>> = <<3, 1, 2>>
    /\ <<last.list[1].CreatedAt, last.list[2].CreatedAt, last.list[3].CreatedAt>>
          = <<1, 1, 0>>

----------------------------------------------------------------------------
(* Properties of capture times.                                            *)

\* the instant that a well-formed capture-time text names when read in UTC
CaptureInstant(text) == IF text = <<"1">> THEN 1 ELSE 2

\* the time is absent when t is, and otherwise the instant of t read in UTC
SameInstantInUTC(got, t) ==
    /\ got.Valid = t.Valid
    /\ t.Valid => got.V.unix = t.V.unix /\ got.V.zone = "UTC"

\* C19: the upload passes to Photos.Create the instant that its capture-time
\* text names in UTC (none when the field is empty); a Photos.Create given a
\* time t stores and returns t's instant read in UTC, the stored time never
\* changes, and Photos.GetByID returns it read in UTC.
C19_TakenAtRoundTrip ==
    [][/\ (up.state = "metadata-parsed" /\ up'.creates = up.creates + 1) =>
             /\ last'.op = "Photos.Create"
             /\ last'.input.TakenAt.Valid = (req.taken_at # << >>)
             /\ req.taken_at # << >> =>
                   /\ last'.input.TakenAt.V.unix = CaptureInstant(req.taken_at)
                   /\ last'.input.TakenAt.V.zone = "UTC"
       /\ (last'.op = "Photos.Create" /\ photoSeq' = photoSeq + 1) =>
             /\ SameInstantInUTC(last'.photo.TakenAt, last'.input.TakenAt)
             /\ \E p \in photos' :
                   /\ p.ID = photoSeq'
                   /\ SameInstantInUTC(p.TakenAt, last'.input.TakenAt)
       /\ \A p \in photos, q \in photos' : p.ID = q.ID => q.TakenAt = p.TakenAt
       /\ (last'.op = "Photos.GetByID" /\ last'.err = NoError) =>
             \E p \in photos :
                /\ p.ID = last'.p
                /\ SameInstantInUTC(last'.photo.TakenAt, p.TakenAt)]_vars

\* an upload with capture time "2" persisted, and GetByID returned its photo
\* with the instant 2 in UTC
C19_Witness ==
    /\ up.state = "persisted"
    /\ req.taken_at = <<"2">>
    /\ last.op = "Photos.GetByID"
    /\ last.photo.Filename = StoredPath(up.album.Slug, up.filename)
    /\ last.photo.TakenAt = NotNull(Time(2, "UTC"))
    /\ last.photo \in photos

----------------------------------------------------------------------------
(* Properties of Open.                                                     *)

\* C20: Open of the empty path fails and changes nothing; Open of a path
\* without a database file succeeds with empty tables, so that List and
\* ListByAlbum return no rows; Open of a path whose file exists succeeds
\* and keeps every album and photo row.
C20_OpenIdempotent ==
    [][last'.op = "Open" =>
          IF last'.slug = << >>
          THEN /\ last'.err # NoError
               /\ UNCHANGED <<albums, photos, albumSeq, photoSeq, disk>>
          ELSE /\ last'.err = NoError
               /\ disk'.db
               /\ IF disk.db
                  THEN UNCHANGED <<albums, photos, albumSeq, photoSeq>>
                  ELSE /\ AlbumsList(albums') = << >>
                       /\ \A a \in AlbumIDs :
                             PhotosListByAlbum(photos', a) = << >>
                       /\ albums' = {}
                       /\ photos' = {}]_vars

\* a store holding an album and a photo was opened again
C20_Witness ==
    /\ last.op = "Open"
    /\ last.slug = DBPath
    /\ last.err = NoError
    /\ \E r \in albums : \E p \in photos : p.AlbumID = r.ID

----------------------------------------------------------------------------
(* Properties of the album update handler.                                 *)

\* C21: in every step, of a repository operation or of the update handler,
\* an album row that exists after the step has the ID of a row that existed
\* before it exactly when it has that row's Slug; the handler addresses its
\* Update to the ID of the album it looked up.
C21_SlugAndIDImmutable ==
    [][/\ \A r \in albums : \A q \in albums' : (q.ID = r.ID) <=> (q.Slug = r.Slug)
       /\ (req.handler = "Update" /\ req.step = "looked-up" /\ req'.step = "done") =>
             /\ last'.op = "Albums.Update"
             /\ last'.a = req.current.ID
             /\ req.current.Slug = TrimSpace(req.slug)]_vars

\* the handler retitled album 2, whose slug is still the one it was created
\* with after album 1 was deleted
C21_Witness ==
    /\ req.handler = "Update"
    /\ req.step = "done"
    /\ resp.status = StatusSeeOther
    /\ albumSeq = 2
    /\ albums = {[ID |-> 2, Slug |-> req.current.Slug, Title |-> <<"U">>,
                  Description |-> <<"d">>, CoverPhotoID |-> Null,
                  CreatedAt |-> 0, UpdatedAt |-> 0]}

\* C26: the handler's first step answers 404 when no album has the slug
\* and 422 with the title message when the trimmed title is empty, in both
\* cases without an Update call; its second step calls Update for the ID of
\* the album found, with the trimmed title and description, and answers 404
\* when Update returns NotFound (the album was removed meanwhile), 500 on
\* any other error, and 303 to /albums/<slug> of the returned album.
C26_UpdateHandlerOutcomes ==
    [][/\ (req.handler = "Update" /\ req.step = "received" /\ req'.step # "received") =>
             /\ last' = last \/ last'.op = "Albums.GetBySlug"
             /\ albums' = albums
             /\ IF ~ \E r \in albums : r.Slug = TrimSpace(req.slug)
                THEN req'.step = "done" /\ resp'.status = StatusNotFound
                ELSE IF TrimSpace(req.title) = << >>
                THEN /\ req'.step = "done"
                     /\ resp'.status = StatusUnprocessableEntity
                     /\ resp'.errors.title = TitleRequired
                ELSE /\ req'.step = "looked-up"
                     /\ resp' = NoResponse
                     /\ req'.current \in albums
                     /\ req'.current.Slug = TrimSpace(req.slug)
       /\ (req.handler = "Update" /\ req.step = "looked-up" /\ req'.step # "looked-up") =>
             /\ req'.step = "done"
             /\ last'.op = "Albums.Update"
             /\ last'.a = req.current.ID
             /\ last'.input = [Title |-> NotNull(TrimSpace(req.title)),
                               Description |-> NotNull(TrimSpace(req.description))]
             /\ ErrorsIs(last'.err, ErrNotFound) =>
                   ~ \E r \in albums : r.ID = req.current.ID
             /\ (~ \E r \in albums : r.ID = req.current.ID) => last'.err # NoError
             /\ IF last'.err = NoError
                THEN /\ resp'.status = StatusSeeOther
                     /\ resp'.location = <<"/albums/">> \o last'.album.Slug
                     /\ last'.album.ID = req.current.ID
                     /\ last'.album \in albums'
                ELSE /\ albums' = albums
                     /\ resp'.status = IF ErrorsIs(last'.err, ErrNotFound)
                                       THEN StatusNotFound
                                       ELSE StatusInternalServerError]_vars

\* the album was deleted between the lookup and the Update call: 404
C26_Witness ==
    /\ req.handler = "Update"
    /\ req.step = "done"
    /\ req.current.ID = 1
    /\ resp.status = StatusNotFound
    /\ last.op = "Albums.Update"
    /\ last.err = ErrNotFound
    /\ albums = {}

----------------------------------------------------------------------------
(* Properties of the files and steps of the ingestion pipeline.            *)

\* what the uploads directory may hold for an uploaded payload
SanitizedBytes(bytes) == IF bytes = "jpeg" THEN "jpeg-sanitized" ELSE bytes

\* C22: whenever no attempt is in flight, no file under the uploads
\* directory holds raw JPEG bytes, and the file of the attempt that has just
\* ended, if it remains, holds the re-encoded image for a JPEG and the
\* uploaded bytes for any other content; an attempt that reached the
\* sanitizer with an undecodable JPEG has ended in 400 with no file left.
C22_ServedBytesAreSanitized ==
    up.state \in Terminal =>
        /\ \A f \in disk.files : f.bytes \notin {"jpeg", "jpeg-undecodable"}
        /\ \A f \in disk.files :
              (f.dir = up.album.Slug /\ f.name = up.filename) =>
                  f.bytes = SanitizedBytes(req.file.bytes)
        /\ (up.album # NoAlbum /\ req.file.bytes = "jpeg-undecodable") =>
              /\ up.state = "failed"
              /\ resp.status = StatusBadRequest
              /\ up.creates = 0
              /\ ~ FileOnDisk(disk, up.album.Slug, up.filename)

\* a JPEG and another payload were stored, the one re-encoded, the other as
\* uploaded
C22_Witness ==
    /\ up.state = "persisted"
    /\ up.n = 2
    /\ {f.bytes : f \in disk.files} = {"jpeg-sanitized", "other"}
    /\ Cardinality(photos) = 2

\* the steps of an attempt, in the order they are taken
UploadTransitions ==
    {<<"idle", "received">>, <<"persisted", "received">>, <<"failed", "received">>,
     <<"received", "file-validated">>, <<"received", "failed">>,
     <<"file-validated", "filename-assigned">>,
     <<"filename-assigned", "directory-ready">>,
     <<"directory-ready", "written-to-disk">>,
     <<"written-to-disk", "sanitized">>, <<"written-to-disk", "file-removed">>,
     <<"sanitized", "metadata-parsed">>, <<"sanitized", "file-removed">>,
     <<"metadata-parsed", "persisted">>, <<"metadata-parsed", "file-removed">>,
     <<"file-removed", "failed">>}

\* C23: an attempt moves only along received, file-validated,
\* filename-assigned, directory-ready, written-to-disk, sanitized,
\* metadata-parsed, persisted; it fails directly only before anything was
\* written and afterwards only through the removal of its file; a terminal
\* state is left only by the next attempt; and every attempt received
\* reaches persisted or failed.
C23_UploadStateMachine ==
    /\ [][/\ up'.state # up.state => <<up.state, up'.state>> \in UploadTransitions
          /\ up'.n # up.n => (up'.state = "received" /\ up'.n = up.n + 1)
          /\ (up'.state = "received" /\ up.state # "received") => up'.n = up.n + 1
          /\ (up'.state = "written-to-disk" /\ up.state # "written-to-disk") =>
                FileOnDisk(disk', up'.album.Slug, up'.filename)
          /\ (up'.state = "file-removed" /\ up.state # "file-removed") =>
                /\ FileOnDisk(disk, up.album.Slug, up.filename)
                /\ ~ FileOnDisk(disk', up.album.Slug, up.filename)
          /\ (up'.state = "failed" /\ up.state = "received") =>
                (up'.filename = << >> /\ disk' = disk)]_vars
    /\ \A n \in 1..(MaxUploads + 1) :
          (up.state = "received" /\ up.n = n) ~> (up.state \in Terminal /\ up.n = n)

\* the second attempt was written, refused by the sanitizer and rolled back
\* after the first had persisted
C23_Witness ==
    /\ up.state = "failed"
    /\ up.n = 2
    /\ up.status = StatusBadRequest
    /\ req.file.bytes = "jpeg-undecodable"
    /\ up.filename # << >>
    /\ Cardinality(disk.files) = 1
    /\ Cardinality(photos) = 1

----------------------------------------------------------------------------
(* Properties of the admin middleware and the login.                       *)

\* the routes of the admin area
AdminRoute(method, path) ==
    \/ path = <<"/", "albums">>
    \/ path = <<"/", "albums", "/", "new">> /\ method = "GET"
    \/ path = <<"/", "albums", "/", "a">> /\ method = "GET"
    \/ path = <<"/", "albums", "/", "a", "/", "edit">>
    \/ path = <<"/", "albums", "/", "a", "/", "photos">> /\ method = "POST"

\* the admin cookie is present and reads "1"
HasAdminCookie(r) ==
    r.cookie.present /\ QueryUnescape(r.cookie.value) = <<"1">>

\* C24: a request to an admin route passes through the middleware; without
\* the admin cookie it is aborted with a 302 to /login?next=<escaped URI>
\* and is never handed to a handler; with the cookie the middleware hands
\* it to the route's handler without writing a response.
C24_AdminRoutesRequireCookie ==
    [][/\ (req.stage = "received" /\ req'.stage # "received"
              /\ AdminRoute(req.method, req.path)) =>
             (req'.stage = "middleware" /\ req'.handler \in ProtectedHandlers)
       /\ (req.stage = "middleware" /\ req'.stage # "middleware") =>
             IF HasAdminCookie(req)
             THEN req'.stage = "handler" /\ resp' = NoResponse
             ELSE /\ req'.stage = "aborted"
                  /\ resp'.status = StatusFound
                  /\ resp'.location =
                        <<"/login", "?", "next", "=">> \o QueryEscape(RequestURI(req))
                  /\ RequestURI(req) \notin {<< >>, <<"/">>}
       /\ req.stage = "aborted" => req'.stage = "aborted"
       /\ (req'.stage = "handler" /\ AdminRoute(req.method, req.path)) =>
             HasAdminCookie(req)]_vars

\* POST /albums/a/edit?x=1 with the cookie "0" was sent to the login page
C24_Witness ==
    /\ req.stage = "aborted"
    /\ req.handler = "Update"
    /\ req.cookie = Cookie(<<"0">>)
    /\ resp.status = StatusFound
    /\ resp.location = <<"/login", "?", "next", "=", "%2F", "albums", "%2F", "a",
                         "%2F", "edit", "%3F", "x", "%3D", "1">>

\* C29: a login submission sets the admin cookie only when the trimmed
\* passcode is not empty and equals the configured password, and the
\* redirect that follows a login goes to /albums when no next value is
\* given and otherwise to a next value that starts with "/" and not with
\* "//".
C29_LoginRedirectIsSameSite ==
    (req.handler = "SubmitLogin" /\ req.stage = "served") =>
        /\ resp.cookie.present =>
              /\ TrimSpace(req.passcode) # << >>
              /\ TrimSpace(req.passcode) = AdminPassword
        /\ resp.status = StatusFound =>
              /\ resp.cookie = Cookie(<<"1">>)
              /\ IF req.next = << >>
                 THEN resp.location = <<"/", "albums">>
                 ELSE /\ resp.location = req.next
                      /\ HasPrefix(resp.location, <<"/">>)
                      /\ ~ HasPrefix(resp.location, <<"/", "/">>)

----------------------------------------------------------------------------
(* Properties of the references between the tables.                        *)

\* C27: after every operation each photo's AlbumID is the ID of an album
\* in the table, and a Photos.Create for an album that does not exist
\* fails, stores no row and issues no ID.
C27_PhotoAlbumExists ==
    [][/\ \A p \in photos' : \E r \in albums' : r.ID = p.AlbumID
       /\ (last'.op = "Photos.Create" /\ ~ \E r \in albums : r.ID = last'.a) =>
             /\ last'.err # NoError
             /\ last'.photo = NoPhoto
             /\ photos' = photos
             /\ photoSeq' = photoSeq]_vars

\* a photo for the deleted album 1 was refused while album 2 holds a photo
C27_Witness ==
    /\ last.op = "Photos.Create"
    /\ last.a = 1
    /\ ErrorsIs(last.err, ErrForeignKey)
    /\ albumSeq = 2
    /\ ~ \E r \in albums : r.ID = 1
    /\ \E p \in photos : p.AlbumID = 2

\* the IDs of the rows of a table
IDsOf(rows) == {r.ID : r \in rows}

\* C30: no two live rows of a table share an ID, and an ID that appears in
\* a table with a step is larger than every ID the table has issued before
\* (the sequence of the table, which never decreases), so the ID of a
\* deleted row is never given to a later row.
C30_IDsNeverReused ==
    [][/\ Cardinality(IDsOf(albums')) = Cardinality(albums')
       /\ Cardinality(IDsOf(photos')) = Cardinality(photos')
       /\ albumSeq' >= albumSeq
       /\ photoSeq' >= photoSeq
       /\ \A id \in IDsOf(albums) : id <= albumSeq
       /\ \A id \in IDsOf(photos) : id <= photoSeq
       /\ \A id \in IDsOf(albums') \ IDsOf(albums) : id > albumSeq /\ id = albumSeq'
       /\ \A id \in IDsOf(photos') \ IDsOf(photos) : id > photoSeq /\ id = photoSeq'
       /\ (last'.op = "Albums.Create" /\ last'.err = NoError /\ albumSeq' # albumSeq) =>
             last'.album.ID \in IDsOf(albums') \ IDsOf(albums)
       /\ (last'.op = "Photos.Create" /\ last'.err = NoError /\ photoSeq' # photoSeq) =>
             last'.photo.ID \in IDsOf(photos') \ IDsOf(photos)]_vars

\* album 1 is gone and the album that was just created has ID 2
C30_Witness ==
    /\ last.op = "Albums.Create"
    /\ last.err = NoError
    /\ last.album.ID = 2
    /\ IDsOf(albums) = {2}
    /\ albumSeq = 2

----------------------------------------------------------------------------
(* Properties of repository calls that run concurrently.                   *)

\* C25: when SetCoverPhoto(a, p) returns success, whatever other calls ran
\* between its statements, the CoverPhotoID of album a names a photo that
\* exists and belongs to a.
C25_SetCoverPhotoAtomic ==
    [][(/\ req.handler = "Albums.SetCoverPhoto"
        /\ req.step = "selected"
        /\ req'.step = "returned"
        /\ last'.err = NoError) =>
          \A r \in albums' :
             (r.ID = req.a /\ r.CoverPhotoID.Valid) =>
                PhotoOwned(photos', r.CoverPhotoID.V, req.a)]_vars

\* C28: a Create whose INSERT succeeded returns, whatever other calls ran
\* between its statements, no error and the row as inserted: the supplied
\* fields, the new ID, CreatedAt equal to UpdatedAt and no cover photo.
C28_CreateReturnsInsertedRow ==
    [][/\ (req.handler = "Albums.Create" /\ req.step = "inserted"
              /\ req'.step = "returned") =>
             /\ last'.err = NoError
             /\ last'.album = req.album
             /\ last'.album.ID # 0
             /\ last'.album.CreatedAt = last'.album.UpdatedAt
             /\ last'.album.CoverPhotoID = Null
       /\ (req.handler = "Photos.Create" /\ req.step = "inserted"
              /\ req'.step = "returned") =>
             /\ last'.err = NoError
             /\ last'.photo = req.photo
             /\ last'.photo.ID # 0
             /\ last'.photo.CreatedAt = last'.photo.UpdatedAt]_vars

====
